---- MODULE Spec2Model ----
(***************************************************************************)
(* Decision-and-integrity core of the emergency routing backend.           *)
(*                                                                         *)
(*  - AuditLedger : backend/services/auditService.js (database variant,    *)
(*                  lines 17-281) over the Audit model (models/Audit).     *)
(*  - TripMonitor : backend/services/gpsMonitoringService.js,              *)
(*                  class GPSMonitoringService.                            *)
(*                                                                         *)
(* SHA-256 is modelled as a collision-free function: a digest is the tuple *)
(* of the fields that calculateHash serialises.                            *)
(***************************************************************************)
EXTENDS Integers, Sequences, FiniteSets, TLC

\* ------------------------------------------------------------- bounds
MaxEntries == 3      \* persisted audit entries a run may reach
MaxTime == 1         \* last millisecond tick of the audit clock
NumProcs == 2        \* createLogEntry calls that may be in flight together

Procs == 1..NumProcs

\* ------------------------------------------------------------- JS values
\* Every hash-valued slot holds a tuple, so that any two can be compared.
Undefined == <<"undefined">>
Null == <<"null">>
Genesis == <<"genesis">>
Redacted == "***REDACTED***"
Absent == "<absent>"
NoUser == "<undefined>"

\* JavaScript truthiness of a hash-valued slot (if (this.lastHash)).
TruthyHash(h) == h # Undefined /\ h # Null

\* JavaScript truthiness of a string-valued field (if (sanitized.patient.name)).
TruthyField(s) == s # Absent /\ s # ""

\* ------------------------------------------------------------- detail payloads
\* A detail payload, as far as redaction is concerned: the top-level `patient`
\* object and a patient sub-object nested under another key (for example
\* patientCondition.patient in the payload logRoutingDecision builds).
NoPatient == [has |-> FALSE, name |-> Absent, phone |-> Absent]
Patient(n, ph) == [has |-> TRUE, name |-> n, phone |-> ph]
Details(top, nested) == [patient |-> top, nested |-> nested]
PlainDetails == Details(NoPatient, NoPatient)

\* sanitizeDetails: clone, then mask patient.name / patient.phone of the
\* top-level patient object when they are truthy. Nothing else is visited.
sanitizeDetails(details) ==
  IF details.patient.has
    THEN [details EXCEPT
            !.patient.name = IF TruthyField(@) THEN Redacted ELSE @,
            !.patient.phone = IF TruthyField(@) THEN Redacted ELSE @]
    ELSE details

\* ------------------------------------------------------------- Audit model
\* Paths declared by AuditSchema. Mongoose documents are strict: a key of
\* the object handed to Audit.create that is not a schema path is neither
\* stored nor readable on the returned / queried document.
SchemaPaths == {"request", "ambulance", "user", "event", "details"}

\* AuditSchema.event enum.
EventEnum ==
  {"request.created", "request.updated", "routing.calculated",
   "hospital.selected", "hospital.notified", "ambulance.dispatched",
   "ambulance.enroute", "ambulance.arrived", "ambulance.route_deviation",
   "ambulance.location_update", "patient.handed_over", "request.completed",
   "request.cancelled", "system.error"}

\* Value of a hash-valued key on a document built from `value`.
StrictPath(path, value) == IF path \in SchemaPaths THEN value ELSE Undefined

\* calculateHash(entryData, timestamp)
calculateHash(entryData, timestamp) ==
  <<"sha256", timestamp, entryData.event, entryData.user,
    entryData.details, entryData.previousHash>>

NoLogData ==
  [event |-> "", user |-> NoUser, details |-> PlainDetails,
   previousHash |-> Undefined, hash |-> Undefined]

NoDoc ==
  [id |-> 0, timestamp |-> 0, event |-> "", user |-> NoUser,
   details |-> PlainDetails, previousHash |-> Undefined, hash |-> Undefined]

\* The document Audit.create(logData) persists at clock `at`:
\* schema paths only, `timestamp` is createdAt (set when saving).
AuditDoc(id, logData, at) ==
  [id |-> id, timestamp |-> at, event |-> logData.event,
   user |-> logData.user, details |-> logData.details,
   previousHash |-> StrictPath("previousHash", logData.previousHash),
   hash |-> StrictPath("hash", logData.hash)]

\* ------------------------------------------------------------- log* helpers
\* A call is the helper entered, the event kind and detail payload it hands
\* to createLogEntry, and actor.id. Request and ambulance ids are taken to be
\* ids the store accepts.
Call(helper, event, user, details) ==
  [helper |-> helper, event |-> event, user |-> user, details |-> details]

NoCall == Call("", "", NoUser, PlainDetails)

logRoutingDecision(nested) ==
  Call("logRoutingDecision", "routing.calculated", "u1", Details(NoPatient, nested))
logHospitalNotification ==
  Call("logHospitalNotification", "hospital.notified", "u1", PlainDetails)
logCrewAcknowledgment ==
  Call("logCrewAcknowledgment", "ambulance.enroute", "u1", PlainDetails)
logGPSUpdate ==
  Call("logGPSUpdate", "ambulance.location_update", NoUser, PlainDetails)
logDeviation(resolved) ==
  Call("logDeviation",
       IF resolved THEN "ambulance.deviation_resolved" ELSE "ambulance.route_deviation",
       NoUser, PlainDetails)
logRouteCompletion ==
  Call("logRouteCompletion", "request.completed", NoUser, PlainDetails)

\* Calls used where the claims are about the chain, not the payload.
ChainCalls == {logGPSUpdate, logCrewAcknowledgment}

\* Every helper, and createLogEntry called directly with a patient payload.
HelperCalls ==
  {logRoutingDecision(NoPatient), logRoutingDecision(Patient("Alice", "555")),
   logHospitalNotification, logCrewAcknowledgment, logGPSUpdate,
   logDeviation(FALSE), logDeviation(TRUE), logRouteCompletion}

DirectCalls ==
  {Call("createLogEntry", "request.created", "u1", Details(Patient(n, ph), NoPatient)) :
     n \in {Absent, "Alice"}, ph \in {"", "555"}}

AllCalls == HelperCalls \cup DirectCalls

\* A log* call a route has made, with the trip and the alert it was made for
\* ("" and -1 where the payload names none).
Handed(c, requestId, alertId) == [call |-> c, requestId |-> requestId, alertId |-> alertId]

\* ------------------------------------------------------------- state
VARIABLES
  db,          \* the Audit collection, in insertion order
  issued,      \* logData of each successful Audit.create, parallel to db
  lastHash,    \* AuditService.lastHash
  now,         \* the clock (ms)
  pc,          \* position of each in-flight createLogEntry
  call,        \* arguments of each in-flight createLogEntry
  timestamp,   \* createLogEntry's local `timestamp`
  found,       \* getPreviousHash's local `lastEntry`
  logData,     \* createLogEntry's local `logData`
  outcome,     \* how each caller's last createLogEntry promise settled
  verifyOut,   \* result of the last verifyIntegrity on the present store
  touched      \* what an outside writer did to the store

auditVars ==
  <<db, issued, lastHash, now, pc, call, timestamp, found, logData, outcome,
    verifyOut, touched>>

VARIABLES
  activeTrackedAmbulances,  \* GPSMonitoringService.activeTrackedAmbulances
  clock,                    \* the clock of the trip monitor (ms)
  ret,                      \* what the last GPSMonitoringService call returned
  stopped,                  \* trips stopped and not started again since
  completion                \* position of the PUT /complete handler of each trip

tripVars == <<activeTrackedAmbulances, clock, ret, stopped, completion>>

VARIABLES
  trafficCache,  \* TrafficService.trafficCache
  travel,        \* each caller's getTravelTime call: its locals and what it returned
  hospitals,     \* the Hospital collection, in the order find returns it
  optimized,     \* the last optimizeHospitalSelection: its locals and its result
  reply,         \* the last answer of POST /calculate
  scores,        \* five sub-scores and the composite computed from them
  handed,        \* the log* calls the routes have made on auditService
  pass,          \* an optimizeHospitalSelection in progress, one await at a time
  internal       \* the last getInternalRecommendations: its passes and its result

routingVars ==
  <<trafficCache, travel, hospitals, optimized, reply, scores, handed, pass, internal>>

vars == <<auditVars, tripVars, routingVars>>

NoVerify ==
  [ran |-> FALSE, isValid |-> FALSE, totalEntries |-> 0, failedAt |-> 0, failedId |-> 0]
Untouched == [kind |-> "none", at |-> 0]

AuditInit ==
  /\ db = << >>
  /\ issued = << >>
  /\ lastHash = Null
  /\ now = 0
  /\ pc = [p \in Procs |-> "idle"]
  /\ call = [p \in Procs |-> NoCall]
  /\ timestamp = [p \in Procs |-> 0]
  /\ found = [p \in Procs |-> NoDoc]
  /\ logData = [p \in Procs |-> NoLogData]
  /\ outcome = [p \in Procs |-> "none"]
  /\ verifyOut = NoVerify
  /\ touched = Untouched

\* ------------------------------------------------------------- createLogEntry
AllIdle == \A p \in Procs : pc[p] = "idle"
InFlight == Cardinality({p \in Procs : pc[p] \notin {"idle", "created"}})

\* The promise of caller p settles and the call's frame is gone.
Settle(p, how) ==
  /\ pc' = [pc EXCEPT ![p] = "idle"]
  /\ outcome' = [outcome EXCEPT ![p] = how]
  /\ call' = [call EXCEPT ![p] = NoCall]
  /\ timestamp' = [timestamp EXCEPT ![p] = 0]
  /\ found' = [found EXCEPT ![p] = NoDoc]
  /\ logData' = [logData EXCEPT ![p] = NoLogData]

\* logData as createLogEntry builds it (lines 49-61).
BuildLogData(c, ts, previousHash) ==
  LET d == [event |-> c.event, user |-> c.user,
            details |-> sanitizeDetails(c.details),
            previousHash |-> previousHash, hash |-> Undefined]
  IN [d EXCEPT !.hash = calculateHash(d, ts)]

\* createLogEntry up to its first suspension: take the timestamp and enter
\* getPreviousHash, which answers from the cache or issues findOne.
CreateLogEntry(p, c) ==
  /\ pc[p] = "idle"
  /\ call' = [call EXCEPT ![p] = c]
  /\ timestamp' = [timestamp EXCEPT ![p] = now]
  /\ outcome' = [outcome EXCEPT ![p] = "pending"]
  /\ IF TruthyHash(lastHash)
       THEN /\ logData' = [logData EXCEPT ![p] = BuildLogData(c, now, lastHash)]
            /\ pc' = [pc EXCEPT ![p] = "create"]
       ELSE /\ logData' = [logData EXCEPT ![p] = NoLogData]
            /\ pc' = [pc EXCEPT ![p] = "findOne"]
  /\ UNCHANGED <<db, issued, lastHash, now, found, verifyOut, touched>>
  /\ UNCHANGED <<tripVars, routingVars>>

\* Documents findOne().sort({timestamp: -1}) may return.
Latest(store) ==
  IF store = << >> THEN {NoDoc}
  ELSE {store[i] : i \in {k \in 1..Len(store) :
                    \A j \in 1..Len(store) : store[j].timestamp <= store[k].timestamp}}

\* The store answers getPreviousHash's findOne.
DbFindOne(p) ==
  /\ pc[p] = "findOne"
  /\ \E d \in Latest(db) : found' = [found EXCEPT ![p] = d]
  /\ pc' = [pc EXCEPT ![p] = "gotLast"]
  /\ UNCHANGED <<db, issued, lastHash, now, call, timestamp, logData, outcome,
                 verifyOut, touched>>
  /\ UNCHANGED <<tripVars, routingVars>>

\* getPreviousHash resumes (lines 33-38), createLogEntry builds logData and
\* calls Audit.create.
GetPreviousHashResume(p) ==
  /\ pc[p] = "gotLast"
  /\ LET lastEntry == found[p]
         previousHash == IF lastEntry.id # 0 THEN lastEntry.hash ELSE Genesis
     IN /\ lastHash' = IF lastEntry.id # 0 THEN lastEntry.hash ELSE lastHash
        /\ logData' = [logData EXCEPT
                         ![p] = BuildLogData(call[p], timestamp[p], previousHash)]
  /\ pc' = [pc EXCEPT ![p] = "create"]
  /\ UNCHANGED <<db, issued, now, call, timestamp, found, outcome, verifyOut,
                 touched>>
  /\ UNCHANGED <<tripVars, routingVars>>

\* Audit.create: the event must be in the schema's enum, else the promise is
\* rejected with a validation error and nothing is stored.
DbCreate(p) ==
  /\ pc[p] = "create"
  /\ IF logData[p].event \in EventEnum
       THEN /\ db' = Append(db, AuditDoc(Len(db) + 1, logData[p], now))
            /\ issued' = Append(issued, logData[p])
            /\ pc' = [pc EXCEPT ![p] = "created"]
            /\ verifyOut' = NoVerify
            /\ UNCHANGED <<call, timestamp, found, logData, outcome>>
       ELSE /\ Settle(p, "invalid")
            /\ UNCHANGED <<db, issued, verifyOut>>
  /\ UNCHANGED <<lastHash, now, touched>>
  /\ UNCHANGED <<tripVars, routingVars>>

\* Audit.create fails in the store: createLogEntry rejects before line 67.
DbCreateFails(p) ==
  /\ pc[p] = "create"
  /\ Settle(p, "failed")
  /\ UNCHANGED <<db, issued, lastHash, now, verifyOut, touched>>
  /\ UNCHANGED <<tripVars, routingVars>>

\* createLogEntry resumes after Audit.create: this.lastHash = newEntry.hash.
CreateLogEntryResume(p) ==
  /\ pc[p] = "created"
  /\ lastHash' = AuditDoc(0, logData[p], 0).hash
  /\ Settle(p, "fulfilled")
  /\ UNCHANGED <<db, issued, now, verifyOut, touched>>
  /\ UNCHANGED <<tripVars, routingVars>>

\* A millisecond passes.
Tick ==
  /\ now < MaxTime
  /\ now' = now + 1
  /\ UNCHANGED <<db, issued, lastHash, pc, call, timestamp, found, logData,
                 outcome, verifyOut, touched>>
  /\ UNCHANGED <<tripVars, routingVars>>

\* The process is started again: a new AuditService over the same store.
Restart ==
  /\ AllIdle
  /\ db # << >>
  /\ lastHash # Null
  /\ lastHash' = Null
  /\ outcome' = [p \in Procs |-> "none"]
  /\ UNCHANGED <<db, issued, now, pc, call, timestamp, found, logData,
                 verifyOut, touched>>
  /\ UNCHANGED <<tripVars, routingVars>>

\* ------------------------------------------------------------- verifyIntegrity
\* Orders in which find().sort({timestamp: 'asc'}) may deliver the store.
SortedOrders(store) ==
  LET n == Len(store)
      orders == {[i \in 1..n |-> store[f[i]]] : f \in Permutations(1..n)}
  IN {s \in orders : \A i \in 1..n : \A j \in i..n : s[i].timestamp <= s[j].timestamp}

\* The loop of verifyIntegrity from entry i on: the position at which it
\* breaks, 0 when it runs to the end.
RECURSIVE VerifyFrom(_, _, _)
VerifyFrom(entries, i, previousHash) ==
  IF i > Len(entries) THEN 0
  ELSE IF entries[i].previousHash # previousHash THEN i
  ELSE IF calculateHash(entries[i], entries[i].timestamp) # entries[i].hash THEN i
  ELSE VerifyFrom(entries, i + 1, entries[i].hash)

\* The result of verifyIntegrity over `entries`; failedId is the entry the
\* failure is logged for.
VerifyEntries(entries) ==
  LET at == VerifyFrom(entries, 1, Genesis)
  IN [ran |-> TRUE, isValid |-> at = 0, totalEntries |-> Len(entries),
      failedAt |-> at, failedId |-> IF at = 0 THEN 0 ELSE entries[at].id]

VerifyIntegrity ==
  /\ ~verifyOut.ran
  /\ \E entries \in SortedOrders(db) : verifyOut' = VerifyEntries(entries)
  /\ UNCHANGED <<db, issued, lastHash, now, pc, call, timestamp, found, logData,
                 outcome, touched>>
  /\ UNCHANGED <<tripVars, routingVars>>

\* ------------------------------------------------------------- outside writers
\* Someone with access to the store rewrites the detail payload of one
\* persisted entry and leaves everything else, the hash included, alone.
TamperDetails(i, details) ==
  /\ AllIdle
  /\ touched = Untouched
  /\ i \in 1..Len(db)
  /\ db[i].details # details
  /\ db' = [db EXCEPT ![i].details = details]
  /\ touched' = [kind |-> "details", at |-> i]
  /\ verifyOut' = NoVerify
  /\ UNCHANGED <<issued, lastHash, now, pc, call, timestamp, found, logData, outcome>>
  /\ UNCHANGED <<tripVars, routingVars>>

\* Someone exchanges two entries in the replay order: each takes the
\* other's timestamp.
ExchangeEntries(i, j) ==
  /\ AllIdle
  /\ touched = Untouched
  /\ i \in 1..Len(db) /\ j \in 1..Len(db)
  /\ db[i].timestamp < db[j].timestamp
  /\ db' = [db EXCEPT ![i].timestamp = db[j].timestamp,
                      ![j].timestamp = db[i].timestamp]
  /\ touched' = [kind |-> "exchange", at |-> i]
  /\ verifyOut' = NoVerify
  /\ UNCHANGED <<issued, lastHash, now, pc, call, timestamp, found, logData, outcome>>
  /\ UNCHANGED <<tripVars, routingVars>>

\* ============================================================= TripMonitor
\* Locations lie on one meridian; a coordinate is the distance in metres
\* along it, so the great-circle distance of two locations is the absolute
\* difference of their coordinates.
MaxSamples == 2      \* location samples held by the active trips together
MaxJumps == 1        \* long advances of the trip clock
MaxSpan == 2         \* long advances that the shorter advances may add up to
MaxTrack == 102      \* samples of one uninterrupted run along the route

HistoryCap == 100
DistanceMeters == 200
TimeDelayMinutes == 5
AngleDegrees == 45
Infinity == 1000000000
NoHeading == 0 - 1

TripIds == {"r1", "r2"}
\* The trip clock advances by six and a half minutes at a time; calls made
\* between two advances read the same instant.
Jump == 390000
\* The route from 0 to 1000, heading 90, one minute long.
MainRoute == [coordinates |-> <<0, 1000>>, heading |-> 90, durationInTraffic |-> 1]
Routes ==
  {MainRoute,
   [coordinates |-> << >>, heading |-> 0, durationInTraffic |-> 0]}

Abs(x) == IF x < 0 THEN 0 - x ELSE x

\* Math.round(a / b) for a >= 0, b > 0.
Round(a, b) == (2 * a + b) \div (2 * b)

Location(pos, heading) == [pos |-> pos, heading |-> heading, speed |-> 0]
NoLocation == [pos |-> 0 - 1, heading |-> NoHeading, speed |-> 0]
Sample(location, t) ==
  [pos |-> location.pos,
   heading |-> IF location.heading = NoHeading THEN 0 ELSE location.heading,
   speed |-> location.speed, timestamp |-> t]

calculateDistanceMeters(a, b) == Abs(a - b)

\* calculateExpectedArrival(currentLocation, destination) at clock t.
calculateExpectedArrival(currentPos, destination, t) ==
  LET distance == calculateDistanceMeters(currentPos, destination)
      timeMinutes == Round(distance * 60, 40 * 1000)
  IN [estimatedDistanceMeters |-> distance,
      estimatedTimeMinutes |-> timeMinutes,
      estimatedArrival |-> t + timeMinutes * 60000]

NoArrival ==
  [estimatedDistanceMeters |-> 0, estimatedTimeMinutes |-> 0, estimatedArrival |-> 0]
NoRoute == [coordinates |-> << >>, heading |-> 0, durationInTraffic |-> 0]

NoSession ==
  [requestId |-> "", ambulanceId |-> "", origin |-> 0, destination |-> 0,
   recommendedRoute |-> NoRoute, startTime |-> 0, lastUpdate |-> 0, endTime |-> 0,
   locationHistory |-> << >>, deviationAlerts |-> << >>, status |-> "none",
   expectedArrival |-> NoArrival]

\* normalizeAngle: JavaScript % keeps the sign of the dividend.
normalizeAngle(angle) ==
  LET r == IF angle < 0 THEN 0 - ((0 - angle) % 360) ELSE angle % 360
  IN IF r < 0 THEN r + 360 ELSE r

\* calculateMinDistanceFromRoute
RECURSIVE MinDistanceFrom(_, _, _, _)
MinDistanceFrom(pos, coords, i, minDistance) ==
  IF i > Len(coords) THEN minDistance
  ELSE LET distance == calculateDistanceMeters(pos, coords[i])
       IN MinDistanceFrom(pos, coords, i + 1,
                          IF distance < minDistance THEN distance ELSE minDistance)

calculateMinDistanceFromRoute(location, routeCoordinates) ==
  MinDistanceFrom(location.pos, routeCoordinates, 1, Infinity)

\* checkRouteDeviation(session, currentLocation) at clock t. A heading that
\* is missing from the sample makes the difference NaN, which flags nothing.
checkRouteDeviation(session, currentLocation, t) ==
  LET route == session.recommendedRoute
      minDistance == calculateMinDistanceFromRoute(currentLocation, route.coordinates)
      offRoute == minDistance > DistanceMeters
      hasHeading == route.heading # 0 /\ currentLocation.heading # NoHeading
      headingDiff ==
        IF hasHeading
          THEN Abs(normalizeAngle(currentLocation.heading - route.heading))
          ELSE 0
      offHeading == hasHeading /\ headingDiff > AngleDegrees
      duration == IF route.durationInTraffic # 0 THEN route.durationInTraffic ELSE 30
      scheduledArrival == session.startTime + duration * 60 * 1000
      delayMinutes == IF t > scheduledArrival THEN Round(t - scheduledArrival, 60000) ELSE 0
      late == delayMinutes > TimeDelayMinutes
  IN [isDeviating |-> offRoute \/ offHeading \/ late,
      distanceFromRoute |-> minDistance,
      deviationAngle |-> headingDiff,
      delayMinutes |-> delayMinutes,
      reasons |-> (IF offRoute THEN <<"Off route">> ELSE << >>)
                  \o (IF offHeading THEN <<"Heading deviation">> ELSE << >>)
                  \o (IF late THEN <<"minutes behind schedule">> ELSE << >>)]

NoDeviation ==
  [isDeviating |-> FALSE, distanceFromRoute |-> 0, deviationAngle |-> 0,
   delayMinutes |-> 0, reasons |-> << >>]

\* calculateAlertSeverity with the heading taken into account: a heading
\* deviation beyond the threshold is at least medium.
calculateAlertSeverityAngle(deviationDetails) ==
  IF deviationDetails.distanceFromRoute > 500 \/ deviationDetails.delayMinutes > 10
    THEN "high"
  ELSE IF \/ deviationDetails.distanceFromRoute > 300
          \/ deviationDetails.delayMinutes > 5
          \/ deviationDetails.deviationAngle > AngleDegrees
    THEN "medium"
  ELSE "low"

\* calculateAlertSeverity
calculateAlertSeverity(deviationDetails) ==
  IF deviationDetails.distanceFromRoute > 500 \/ deviationDetails.delayMinutes > 10
    THEN "high"
  ELSE IF deviationDetails.distanceFromRoute > 300 \/ deviationDetails.delayMinutes > 5
    THEN "medium"
  ELSE "low"

\* handleDeviation: the alert pushed on session.deviationAlerts at clock t.
handleDeviation(session, deviationDetails, t) ==
  [id |-> t, requestId |-> session.requestId, ambulanceId |-> session.ambulanceId,
   timestamp |-> t, severity |-> calculateAlertSeverity(deviationDetails),
   details |-> deviationDetails,
   currentLocation |-> session.locationHistory[Len(session.locationHistory)],
   acknowledged |-> FALSE, acknowledgedBy |-> "", acknowledgedAt |-> 0,
   resolved |-> FALSE, resolvedAt |-> 0, resolution |-> ""]

NoAlert ==
  [id |-> 0 - 1, requestId |-> "", ambulanceId |-> "", timestamp |-> 0,
   severity |-> "", details |-> NoDeviation,
   currentLocation |-> [pos |-> 0 - 1, heading |-> 0, speed |-> 0, timestamp |-> 0],
   acknowledged |-> FALSE, acknowledgedBy |-> "", acknowledgedAt |-> 0,
   resolved |-> FALSE, resolvedAt |-> 0, resolution |-> ""]

\* slice(-n)
LastN(seq, n) == IF Len(seq) > n THEN SubSeq(seq, Len(seq) - n + 1, Len(seq)) ELSE seq

NoStats ==
  [totalDistance |-> 0, totalTime |-> 0, averageSpeed |-> 0, deviationCount |-> 0,
   totalDeviationTime |-> 0]

\* The null result of getTrackingStatus.
NoStatus ==
  [null |-> TRUE, requestId |-> "", ambulanceId |-> "", status |-> "none",
   currentLocation |-> [pos |-> 0 - 1, heading |-> 0, speed |-> 0, timestamp |-> 0],
   destination |-> 0, expectedArrival |-> NoArrival, activeAlerts |-> << >>,
   deviationCount |-> 0, lastUpdate |-> 0]

\* What a call returned: `null` for a null result, `error` for the error of
\* a {success: false} result, and the fields of the result otherwise. Only
\* acknowledgeAlert and resolveAlert return an alert; `tracking` is the
\* result of getTrackingStatus and `active` that of getAllActiveTracked.
Ret(op, requestId, null, deviationDetails, expectedArrival, session, finalStats) ==
  [op |-> op, requestId |-> requestId, null |-> null, error |-> "",
   deviationAlert |-> deviationDetails.isDeviating,
   deviationDetails |-> deviationDetails, expectedArrival |-> expectedArrival,
   session |-> session, finalStats |-> finalStats, alert |-> NoAlert,
   tracking |-> NoStatus, active |-> {}]

NullRet(op, requestId) ==
  Ret(op, requestId, TRUE, NoDeviation, NoArrival, NoSession, NoStats)

NoRet == NullRet("", "")

\* startTracking that opens the session in a third state, pending until the
\* first sample.
startTrackingPending(sessions, requestId, ambulanceId, origin, destination, route, t) ==
  LET trackingSession ==
        [requestId |-> requestId, ambulanceId |-> ambulanceId, origin |-> origin,
         destination |-> destination, recommendedRoute |-> route,
         startTime |-> t, lastUpdate |-> t, endTime |-> 0,
         locationHistory |-> << >>, deviationAlerts |-> << >>,
         status |-> "pending",
         expectedArrival |-> calculateExpectedArrival(origin, destination, t)]
  IN [sessions |-> [sessions EXCEPT ![requestId] = trackingSession],
      ret |-> Ret("startTracking", requestId, FALSE, NoDeviation,
                  trackingSession.expectedArrival, trackingSession, NoStats)]

\* startTracking
startTracking(sessions, requestId, ambulanceId, origin, destination, route, t) ==
  LET trackingSession ==
        [requestId |-> requestId, ambulanceId |-> ambulanceId, origin |-> origin,
         destination |-> destination, recommendedRoute |-> route,
         startTime |-> t, lastUpdate |-> t, endTime |-> 0,
         locationHistory |-> << >>, deviationAlerts |-> << >>,
         status |-> "tracking",
         expectedArrival |-> calculateExpectedArrival(origin, destination, t)]
  IN [sessions |-> [sessions EXCEPT ![requestId] = trackingSession],
      ret |-> Ret("startTracking", requestId, FALSE, NoDeviation,
                  trackingSession.expectedArrival, trackingSession, NoStats)]

\* updateLocation with an upsert in place of the early return: a sample for
\* an unknown trip opens a session for it.
updateLocationUpsert(sessions, requestId, location, t) ==
  LET session == sessions[requestId]
      opened ==
        [NoSession EXCEPT
           !.requestId = requestId, !.status = "tracking", !.startTime = t,
           !.lastUpdate = t, !.locationHistory = <<Sample(location, t)>>]
  IN IF session.status = "none"
       THEN [sessions |-> [sessions EXCEPT ![requestId] = opened],
             ret |-> NullRet("updateLocation", requestId)]
       ELSE [sessions |-> sessions, ret |-> NullRet("updateLocation", requestId)]

\* updateLocation: the sessions after the call and what it returns.
updateLocation(sessions, requestId, location, t) ==
  LET session == sessions[requestId] IN
  IF session.status = "none"
    THEN [sessions |-> sessions, ret |-> NullRet("updateLocation", requestId)]
    ELSE
      LET pushed ==
            [session EXCEPT
               !.locationHistory = LastN(Append(@, Sample(location, t)), HistoryCap),
               !.lastUpdate = t]
          deviationCheck == checkRouteDeviation(pushed, location, t)
          alerted ==
            IF deviationCheck.isDeviating
              THEN [pushed EXCEPT
                      !.deviationAlerts =
                         Append(@, handleDeviation(pushed, deviationCheck, t))]
              ELSE pushed
          updated ==
            [alerted EXCEPT
               !.expectedArrival =
                  calculateExpectedArrival(location.pos, session.destination, t)]
      IN [sessions |-> [sessions EXCEPT ![requestId] = updated],
          ret |-> Ret("updateLocation", requestId, FALSE, deviationCheck,
                      updated.expectedArrival, NoSession, NoStats)]

\* calculateFinalStats
RECURSIVE PathLength(_, _)
PathLength(history, i) ==
  IF i > Len(history) THEN 0
  ELSE calculateDistanceMeters(history[i - 1].pos, history[i].pos)
       + PathLength(history, i + 1)

RECURSIVE ResolvedMs(_, _)
ResolvedMs(alerts, i) ==
  IF i > Len(alerts) THEN 0
  ELSE (IF alerts[i].resolved THEN alerts[i].resolvedAt - alerts[i].timestamp ELSE 0)
       + ResolvedMs(alerts, i + 1)

\* calculateFinalStats whose short-history case returns all zeros.
calculateFinalStatsShort(session) ==
  IF Len(session.locationHistory) < 2
    THEN NoStats
    ELSE
      LET history == session.locationHistory
          totalDistance == PathLength(history, 2)
          totalTimeMinutes ==
            Round(history[Len(history)].timestamp - history[1].timestamp, 60000)
      IN [totalDistance |-> totalDistance,
          totalTime |-> totalTimeMinutes,
          averageSpeed |->
            IF totalTimeMinutes > 0
              THEN Round(totalDistance * 60, 1000 * totalTimeMinutes)
              ELSE 0,
          deviationCount |-> Len(session.deviationAlerts),
          totalDeviationTime |-> Round(ResolvedMs(session.deviationAlerts, 1), 60000)]

calculateFinalStats(session) ==
  IF Len(session.locationHistory) < 2
    THEN [NoStats EXCEPT !.deviationCount = Len(session.deviationAlerts)]
    ELSE
      LET history == session.locationHistory
          totalDistance == PathLength(history, 2)
          totalTimeMinutes ==
            Round(history[Len(history)].timestamp - history[1].timestamp, 60000)
      IN [totalDistance |-> totalDistance,
          totalTime |-> totalTimeMinutes,
          averageSpeed |->
            IF totalTimeMinutes > 0
              THEN Round(totalDistance * 60, 1000 * totalTimeMinutes)
              ELSE 0,
          deviationCount |-> Len(session.deviationAlerts),
          totalDeviationTime |-> Round(ResolvedMs(session.deviationAlerts, 1), 60000)]

\* stopTracking that marks the session completed and leaves it in active
\* storage.
stopTrackingKeep(sessions, requestId, finalLocation, t) ==
  LET session == sessions[requestId] IN
  IF session.status = "none"
    THEN [sessions |-> sessions, ret |-> NullRet("stopTracking", requestId)]
    ELSE
      LET completed == [session EXCEPT !.status = "completed", !.endTime = t]
      IN [sessions |-> [sessions EXCEPT ![requestId] = completed],
          ret |-> Ret("stopTracking", requestId, FALSE, NoDeviation,
                      completed.expectedArrival, completed,
                      calculateFinalStats(completed))]

\* stopTracking; finalLocation is NoLocation when the caller passes none.
stopTracking(sessions, requestId, finalLocation, t) ==
  LET session == sessions[requestId] IN
  IF session.status = "none"
    THEN [sessions |-> sessions, ret |-> NullRet("stopTracking", requestId)]
    ELSE
      LET pushed ==
            IF finalLocation # NoLocation
              THEN [session EXCEPT
                      !.locationHistory =
                         Append(@, [pos |-> finalLocation.pos,
                                    heading |-> finalLocation.heading,
                                    speed |-> finalLocation.speed,
                                    timestamp |-> t])]
              ELSE session
          completed == [pushed EXCEPT !.status = "completed", !.endTime = t]
      IN [sessions |-> [sessions EXCEPT ![requestId] = NoSession],
          ret |-> Ret("stopTracking", requestId, FALSE, NoDeviation,
                      completed.expectedArrival, completed,
                      calculateFinalStats(completed))]

\* Position of the first alert with the given id, 0 when there is none (find).
RECURSIVE FindAlert(_, _, _)
FindAlert(alerts, alertId, i) ==
  IF i > Len(alerts) THEN 0
  ELSE IF alerts[i].id = alertId THEN i
  ELSE FindAlert(alerts, alertId, i + 1)

ErrorRet(op, requestId, error) == [NullRet(op, requestId) EXCEPT !.null = FALSE, !.error = error]

\* acknowledgeAlert that falls back on the newest alert when the id names
\* none.
acknowledgeAlertNewest(sessions, requestId, alertId, acknowledgedBy, t) ==
  LET session == sessions[requestId]
      i == Len(session.deviationAlerts)
  IN IF session.status = "none"
       THEN [sessions |-> sessions,
             ret |-> ErrorRet("acknowledgeAlert", requestId, "Session not found")]
     ELSE IF i = 0
       THEN [sessions |-> sessions,
             ret |-> ErrorRet("acknowledgeAlert", requestId, "Alert not found")]
     ELSE
       LET updated ==
             [session EXCEPT
                !.deviationAlerts[i].acknowledged = TRUE,
                !.deviationAlerts[i].acknowledgedBy = acknowledgedBy,
                !.deviationAlerts[i].acknowledgedAt = t]
       IN [sessions |-> [sessions EXCEPT ![requestId] = updated],
           ret |-> ErrorRet("acknowledgeAlert", requestId,
                            IF FindAlert(session.deviationAlerts, alertId, 1) = 0
                              THEN "Alert not found" ELSE "")]

\* acknowledgeAlert
acknowledgeAlert(sessions, requestId, alertId, acknowledgedBy, t) ==
  LET session == sessions[requestId]
      i == FindAlert(session.deviationAlerts, alertId, 1)
  IN IF session.status = "none"
       THEN [sessions |-> sessions,
             ret |-> ErrorRet("acknowledgeAlert", requestId, "Session not found")]
     ELSE IF i = 0
       THEN [sessions |-> sessions,
             ret |-> ErrorRet("acknowledgeAlert", requestId, "Alert not found")]
     ELSE
       LET updated ==
             [session EXCEPT
                !.deviationAlerts[i].acknowledged = TRUE,
                !.deviationAlerts[i].acknowledgedBy = acknowledgedBy,
                !.deviationAlerts[i].acknowledgedAt = t]
       IN [sessions |-> [sessions EXCEPT ![requestId] = updated],
           ret |-> [Ret("acknowledgeAlert", requestId, FALSE, NoDeviation,
                        NoArrival, NoSession, NoStats)
                      EXCEPT !.alert = updated.deviationAlerts[i]]]

\* resolveAlert that acknowledges the alert it resolves.
resolveAlertAcknowledging(sessions, requestId, alertId, resolution, t) ==
  LET session == sessions[requestId]
      i == FindAlert(session.deviationAlerts, alertId, 1)
  IN IF session.status = "none"
       THEN [sessions |-> sessions,
             ret |-> ErrorRet("resolveAlert", requestId, "Session not found")]
     ELSE IF i = 0
       THEN [sessions |-> sessions,
             ret |-> ErrorRet("resolveAlert", requestId, "Alert not found")]
     ELSE
       LET updated ==
             [session EXCEPT
                !.deviationAlerts[i].resolved = TRUE,
                !.deviationAlerts[i].resolvedAt = t,
                !.deviationAlerts[i].resolution = resolution,
                !.deviationAlerts[i].acknowledged = TRUE]
       IN [sessions |-> [sessions EXCEPT ![requestId] = updated],
           ret |-> [Ret("resolveAlert", requestId, FALSE, NoDeviation,
                        NoArrival, NoSession, NoStats)
                      EXCEPT !.alert = updated.deviationAlerts[i]]]

\* resolveAlert
resolveAlert(sessions, requestId, alertId, resolution, t) ==
  LET session == sessions[requestId]
      i == FindAlert(session.deviationAlerts, alertId, 1)
  IN IF session.status = "none"
       THEN [sessions |-> sessions,
             ret |-> ErrorRet("resolveAlert", requestId, "Session not found")]
     ELSE IF i = 0
       THEN [sessions |-> sessions,
             ret |-> ErrorRet("resolveAlert", requestId, "Alert not found")]
     ELSE
       LET updated ==
             [session EXCEPT
                !.deviationAlerts[i].resolved = TRUE,
                !.deviationAlerts[i].resolvedAt = t,
                !.deviationAlerts[i].resolution = resolution]
       IN [sessions |-> [sessions EXCEPT ![requestId] = updated],
           ret |-> [Ret("resolveAlert", requestId, FALSE, NoDeviation,
                        NoArrival, NoSession, NoStats)
                      EXCEPT !.alert = updated.deviationAlerts[i]]]

\* The unresolved alerts (filter).
RECURSIVE Unresolved(_, _)
Unresolved(alerts, i) ==
  IF i > Len(alerts) THEN << >>
  ELSE (IF alerts[i].resolved THEN << >> ELSE <<alerts[i]>>) \o Unresolved(alerts, i + 1)

\* locationHistory[length - 1], undefined for an empty history.
CurrentLocation(session) ==
  IF session.locationHistory = << >>
    THEN [pos |-> 0 - 1, heading |-> 0, speed |-> 0, timestamp |-> 0]
    ELSE session.locationHistory[Len(session.locationHistory)]

\* getTrackingStatus: `null` marks the null result.
getTrackingStatus(sessions, requestId) ==
  LET session == sessions[requestId] IN
  [null |-> session.status = "none",
   requestId |-> session.requestId, ambulanceId |-> session.ambulanceId,
   status |-> session.status, currentLocation |-> CurrentLocation(session),
   destination |-> session.destination, expectedArrival |-> session.expectedArrival,
   activeAlerts |-> Unresolved(session.deviationAlerts, 1),
   deviationCount |-> Len(session.deviationAlerts),
   lastUpdate |-> session.lastUpdate]

\* getAllActiveTracked: the entries of the list it returns.
getAllActiveTracked(sessions) ==
  {[requestId |-> id, ambulanceId |-> sessions[id].ambulanceId,
    status |-> sessions[id].status, currentLocation |-> CurrentLocation(sessions[id]),
    destination |-> sessions[id].destination,
    expectedArrival |-> sessions[id].expectedArrival,
    activeAlerts |-> Len(Unresolved(sessions[id].deviationAlerts, 1))] :
     id \in {x \in DOMAIN sessions : sessions[x].status # "none"}}

\* ------------------------------------------------------------- trip actions
TripInit ==
  /\ activeTrackedAmbulances = [id \in TripIds |-> NoSession]
  /\ clock = 0
  /\ ret = NoRet
  /\ stopped = {}
  /\ completion = [id \in TripIds |-> "idle"]

RECURSIVE SamplesOf(_, _)
SamplesOf(sessions, ids) ==
  IF ids = {} THEN 0
  ELSE LET id == CHOOSE x \in ids : TRUE
       IN Len(sessions[id].locationHistory) + SamplesOf(sessions, ids \ {id})

TotalSamples == SamplesOf(activeTrackedAmbulances, TripIds)

StartTracking(requestId, route) ==
  /\ LET r == startTracking(activeTrackedAmbulances, requestId, "amb1", 0, 1000,
                            route, clock)
     IN /\ activeTrackedAmbulances' = r.sessions
        /\ ret' = r.ret
  /\ stopped' = stopped \ {requestId}
  /\ UNCHANGED <<clock, completion>>
  /\ UNCHANGED <<auditVars, routingVars>>

UpdateLocation(requestId, location) ==
  /\ TotalSamples < MaxSamples
  /\ LET r == updateLocation(activeTrackedAmbulances, requestId, location, clock)
     IN /\ activeTrackedAmbulances' = r.sessions
        /\ ret' = r.ret
  /\ UNCHANGED <<clock, stopped, completion>>
  /\ UNCHANGED <<auditVars, routingVars>>

StopTracking(requestId, finalLocation) ==
  /\ LET r == stopTracking(activeTrackedAmbulances, requestId, finalLocation, clock)
     IN /\ activeTrackedAmbulances' = r.sessions
        /\ ret' = r.ret
        /\ stopped' = IF r.ret.null THEN stopped ELSE stopped \cup {requestId}
  /\ UNCHANGED <<clock, completion>>
  /\ UNCHANGED <<auditVars, routingVars>>

AcknowledgeAlert(requestId, alertId) ==
  /\ LET r == acknowledgeAlert(activeTrackedAmbulances, requestId, alertId, "u1", clock)
     IN /\ activeTrackedAmbulances' = r.sessions
        /\ ret' = r.ret
  /\ UNCHANGED <<clock, stopped, completion>>
  /\ UNCHANGED <<auditVars, routingVars>>

ResolveAlert(requestId, alertId, resolution) ==
  /\ LET r == resolveAlert(activeTrackedAmbulances, requestId, alertId, resolution, clock)
     IN /\ activeTrackedAmbulances' = r.sessions
        /\ ret' = r.ret
  /\ UNCHANGED <<clock, stopped, completion>>
  /\ UNCHANGED <<auditVars, routingVars>>

AdvanceClock ==
  /\ clock < MaxJumps * Jump
  /\ clock' = clock + Jump
  /\ UNCHANGED <<activeTrackedAmbulances, ret, stopped, completion>>
  /\ UNCHANGED <<auditVars, routingVars>>

\* getTrackingStatus that stamps the session it reads.
GetTrackingStatusStamping(requestId) ==
  /\ LET status == getTrackingStatus(activeTrackedAmbulances, requestId)
     IN ret' = [NullRet("getTrackingStatus", requestId) EXCEPT
                  !.null = status.null, !.tracking = status]
  /\ activeTrackedAmbulances' =
       IF activeTrackedAmbulances[requestId].status = "none"
         THEN activeTrackedAmbulances
         ELSE [activeTrackedAmbulances EXCEPT ![requestId].lastUpdate = clock]
  /\ UNCHANGED <<clock, stopped, completion>>
  /\ UNCHANGED <<auditVars, routingVars>>

GetTrackingStatus(requestId) ==
  /\ LET status == getTrackingStatus(activeTrackedAmbulances, requestId)
     IN ret' = [NullRet("getTrackingStatus", requestId) EXCEPT
                  !.null = status.null, !.tracking = status]
  /\ UNCHANGED <<activeTrackedAmbulances, clock, stopped, completion>>
  /\ UNCHANGED <<auditVars, routingVars>>

GetAllActiveTracked ==
  /\ ret' = [NullRet("getAllActiveTracked", "") EXCEPT
               !.null = FALSE, !.active = getAllActiveTracked(activeTrackedAmbulances)]
  /\ UNCHANGED <<activeTrackedAmbulances, clock, stopped, completion>>
  /\ UNCHANGED <<auditVars, routingVars>>

\* POST /deviation-resolve: a request without a resolution is answered 400
\* before resolveAlert is called.
DeviationResolve(requestId, alertId, resolution) ==
  /\ LET r == IF resolution = ""
                THEN [sessions |-> activeTrackedAmbulances,
                      ret |-> ErrorRet("POST /deviation-resolve", requestId,
                                       "Request ID, alert ID, and resolution are required")]
                ELSE resolveAlert(activeTrackedAmbulances, requestId, alertId,
                                  resolution, clock)
     IN /\ activeTrackedAmbulances' = r.sessions
        /\ ret' = [r.ret EXCEPT !.op = "POST /deviation-resolve"]
        /\ handed' = IF r.ret.error = ""
                       THEN handed \cup {Handed(logDeviation(TRUE), requestId, alertId)}
                       ELSE handed
  /\ UNCHANGED <<clock, stopped, completion>>
  /\ UNCHANGED <<trafficCache, travel, hospitals, optimized, reply, scores, pass, internal>>
  /\ UNCHANGED auditVars

\* PUT /complete up to its first await: stopTracking, then the update of the
\* request record is pending.
Complete(requestId, finalLocation) ==
  /\ completion[requestId] # "updating"
  /\ LET r == stopTracking(activeTrackedAmbulances, requestId, finalLocation, clock)
     IN /\ activeTrackedAmbulances' = r.sessions
        /\ ret' = [r.ret EXCEPT !.op = "PUT /complete"]
        /\ stopped' = IF r.ret.null THEN stopped ELSE stopped \cup {requestId}
        /\ completion' =
             IF r.ret.null THEN completion
             ELSE [completion EXCEPT ![requestId] = "updating"]
  /\ UNCHANGED clock
  /\ UNCHANGED <<auditVars, routingVars>>

\* PUT /complete resumed after Request.findByIdAndUpdate fulfilled:
\* auditService.logRouteCompletion is called and the response sent.
CompleteResume(requestId) ==
  /\ completion[requestId] = "updating"
  /\ completion' = [completion EXCEPT ![requestId] = "logged"]
  /\ handed' = handed \cup {Handed(logRouteCompletion, requestId, 0 - 1)}
  /\ UNCHANGED <<activeTrackedAmbulances, clock, ret, stopped>>
  /\ UNCHANGED <<trafficCache, travel, hospitals, optimized, reply, scores, pass, internal>>
  /\ UNCHANGED auditVars

\* PUT /complete resumed after Request.findByIdAndUpdate rejected: the catch
\* block answers 500.
CompleteFails(requestId) ==
  /\ completion[requestId] = "updating"
  /\ completion' = [completion EXCEPT ![requestId] = "failed"]
  /\ UNCHANGED <<activeTrackedAmbulances, clock, ret, stopped>>
  /\ UNCHANGED <<auditVars, routingVars>>

\* PUT /track-location: a request without a location is answered 400;
\* otherwise updateLocation, then logGPSUpdate whatever updateLocation
\* returned, then 404 for a null result or the tracking result.
TrackLocation(requestId, location) ==
  /\ TotalSamples < MaxSamples
  /\ IF location = NoLocation
       THEN /\ ret' = ErrorRet("PUT /track-location", requestId,
                               "Request ID and location are required")
            /\ UNCHANGED <<activeTrackedAmbulances, handed>>
       ELSE LET r == updateLocation(activeTrackedAmbulances, requestId, location, clock)
            IN /\ activeTrackedAmbulances' = r.sessions
               /\ ret' = [r.ret EXCEPT !.op = "PUT /track-location"]
               /\ handed' = handed \cup {Handed(logGPSUpdate, requestId, 0 - 1)}
  /\ UNCHANGED <<clock, stopped, completion>>
  /\ UNCHANGED <<trafficCache, travel, hospitals, optimized, reply, scores, pass, internal>>
  /\ UNCHANGED auditVars

\* POST /deviation-acknowledge: acknowledgeAlert, then 404 with its error or
\* the alert. No log* call is made.
DeviationAcknowledge(requestId, alertId) ==
  /\ LET r == acknowledgeAlert(activeTrackedAmbulances, requestId, alertId, "u1", clock)
     IN /\ activeTrackedAmbulances' = r.sessions
        /\ ret' = [r.ret EXCEPT !.op = "POST /deviation-acknowledge"]
  /\ UNCHANGED <<clock, stopped, completion>>
  /\ UNCHANGED <<auditVars, routingVars>>


\* Advances of the trip clock that end a little before a long one.
ClockSteps == {Jump - 30000, Jump - 10000, Jump}

AdvanceClockBy(step) ==
  /\ clock + step <= MaxSpan * Jump
  /\ clock' = clock + step
  /\ UNCHANGED <<activeTrackedAmbulances, ret, stopped, completion>>
  /\ UNCHANGED <<auditVars, routingVars>>

\* The position after the last one reported: the ambulance moves one metre
\* between two samples of an uninterrupted run.
NextPos(session) ==
  IF session.locationHistory = << >> THEN 1
  ELSE session.locationHistory[Len(session.locationHistory)].pos + 1

\* updateLocation with the next sample of an uninterrupted run.
TrackAlong(requestId) ==
  /\ NextPos(activeTrackedAmbulances[requestId]) <= MaxTrack
  /\ LET location == Location(NextPos(activeTrackedAmbulances[requestId]), 90)
         r == updateLocation(activeTrackedAmbulances, requestId, location, clock)
     IN /\ activeTrackedAmbulances' = r.sessions
        /\ ret' = r.ret
  /\ UNCHANGED <<clock, stopped, completion>>
  /\ UNCHANGED <<auditVars, routingVars>>

\* stopTracking at the end of an uninterrupted run, with or without a final
\* location.
StopAlong(requestId, withFinal) ==
  StopTracking(requestId,
               IF withFinal
                 THEN Location(NextPos(activeTrackedAmbulances[requestId]), 90)
                 ELSE NoLocation)

\* Resolution payloads a caller may pass; "" is none.
Resolutions == {"", "rerouted"}

\* Alert ids a caller may name: the instants at which an alert can be raised.
AlertIds == {0, Jump}

\* Location samples the ambulance may report.
Samples == {Location(200, 90), Location(201, NoHeading), Location(1600, 136)}

\* Location samples at and next to the thresholds of the route from 0 to
\* 1000 with heading 90.
ThresholdSamples ==
  {Location(1200, 90), Location(1201, 90), Location(1300, 90), Location(1301, 90),
   Location(1500, 90), Location(1501, 90), Location(0, 135), Location(0, 136),
   Location(0, 45)}

\* Calls on the trips `ids`, without the alert operations.
TrackingNext(ids) ==
  \/ \E id \in ids : StartTracking(id, MainRoute)
  \/ \E id \in ids, location \in Samples : UpdateLocation(id, location)
  \/ \E id \in ids, final \in {NoLocation, Location(1000, 90)} :
       StopTracking(id, final)
  \/ AdvanceClock

\* The alert operations on the trips `ids`.
AlertNext(ids) ==
  \/ \E id \in ids, a \in AlertIds : AcknowledgeAlert(id, a)
  \/ \E id \in ids, a \in AlertIds, res \in Resolutions : ResolveAlert(id, a, res)

\* ------------------------------------------------------------- travel estimator
\* Places are positions in metres along one line, as in the trip monitor:
\* the distance between two places is the difference of their positions and
\* the heading from one to the other is east (90) or west (270).
cacheExpiry == 300000
defaultSpeedKmh == 40

Callers == {1, 2}

NoEstimate ==
  [distance |-> 0, duration |-> 0, durationInTraffic |-> 0,
   trafficCondition |-> "none", speedAverage |-> 0,
   route |-> [coordinates |-> << >>, heading |-> 0], updatedAt |-> 0 - 1]
NoEntry == [data |-> NoEstimate, timestamp |-> 0 - 1]
EmptyCache == [key \in {} |-> NoEntry]
NoTravel ==
  [pc |-> "idle", origin |-> 0, destination |-> 0, vehicleType |-> "",
   trafficCondition |-> "", result |-> NoEstimate, cached |-> FALSE,
   calledAt |-> 0 - 1, settled |-> "none"]

\* Metres between two places.
calculateDistance(a, b) == Abs(a - b)

calculateHeading(origin, destination) ==
  IF destination > origin THEN 90
  ELSE IF destination < origin THEN 270
  ELSE 0

generateSimpleRoute(origin, destination) ==
  [coordinates |-> <<origin, destination>>,
   heading |-> calculateHeading(origin, destination)]

\* The cache key: the template string of the four coordinates, which two
\* pairs of places share only if they are the same pair.
CacheKey(origin, destination) == <<origin, destination>>

\* The traffic condition of the mock provider at an hour of the day.
getTrafficCondition(hour) ==
  IF (hour >= 7 /\ hour <= 9) \/ (hour >= 17 /\ hour <= 19) THEN "heavy"
  ELSE IF hour >= 9 /\ hour <= 17 THEN "moderate"
  ELSE "light"

\* The multiplier of a traffic condition, in tenths.
SpeedTenths(trafficCondition) ==
  CASE trafficCondition = "light" -> 12
    [] trafficCondition = "heavy" -> 6
    [] OTHER -> 10

\* Durations in minutes for `distance` metres: baseSpeed is
\* defaultSpeedKmh * tenths / 10 and speedMultiplier is tenths / 10, times
\* 1.15 for an ambulance.
calculateTravelTimeWithTraffic(distance, trafficCondition, vehicleType) ==
  LET tenths == SpeedTenths(trafficCondition)
      priority == IF vehicleType = "ambulance" THEN 115 ELSE 100
  IN [duration |-> Round(distance * 600, 1000 * defaultSpeedKmh * tenths),
      durationInTraffic |->
        Round(distance * 600, defaultSpeedKmh * tenths * tenths * priority),
      speedAverage |-> Round(defaultSpeedKmh * tenths * tenths * priority, 10000)]

\* The estimate without traffic data; `distance` is in tenths of a kilometre.
fallbackCalculation(origin, destination, at) ==
  LET distance == calculateDistance(origin, destination)
      duration == Round(distance * 60, 1000 * defaultSpeedKmh)
  IN [distance |-> Round(distance, 100),
      duration |-> duration,
      durationInTraffic |-> Round(duration * 12, 10),
      trafficCondition |-> "unknown",
      speedAverage |-> defaultSpeedKmh,
      route |-> generateSimpleRoute(origin, destination),
      updatedAt |-> at]

\* A cache check that also serves an entry stored exactly five minutes ago.
CacheHitAtExpiry(cache, cacheKey, at) ==
  cacheKey \in DOMAIN cache /\ at - cache[cacheKey].timestamp <= cacheExpiry

\* The cache check at the head of getTravelTime.
CacheHit(cache, cacheKey, at) ==
  cacheKey \in DOMAIN cache /\ at - cache[cacheKey].timestamp < cacheExpiry

\* The try block of getTravelTime once the traffic condition is known: the
\* estimate is built, stored under the key and returned.
getTravelTimeTry(cache, origin, destination, vehicleType, trafficCondition, at) ==
  LET distance == calculateDistance(origin, destination)
      travelTime == calculateTravelTimeWithTraffic(distance, trafficCondition,
                                                   vehicleType)
      result == [distance |-> Round(distance, 100),
                 duration |-> travelTime.duration,
                 durationInTraffic |-> travelTime.durationInTraffic,
                 trafficCondition |-> trafficCondition,
                 speedAverage |-> travelTime.speedAverage,
                 route |-> generateSimpleRoute(origin, destination),
                 updatedAt |-> at]
  IN [trafficCache |-> (CacheKey(origin, destination) :>
                          [data |-> result, timestamp |-> at]) @@ cache,
      data |-> result]

\* A catch block that stores the fallback estimate as a fresh entry.
getTravelTimeCatchStoring(cache, origin, destination, at) ==
  LET data == fallbackCalculation(origin, destination, at)
  IN [trafficCache |-> (CacheKey(origin, destination) :>
                          [data |-> data, timestamp |-> at]) @@ cache,
      data |-> data]

\* The catch block of getTravelTime.
getTravelTimeCatch(cache, origin, destination, at) ==
  [trafficCache |-> cache, data |-> fallbackCalculation(origin, destination, at)]

clearCache(cache, at) ==
  [key \in {k \in DOMAIN cache : ~(at - cache[k].timestamp > cacheExpiry)} |->
     cache[key]]

\* ------------------------------------------------------------- travel actions
\* getTravelTime up to its await: a fresh entry is returned at once;
\* otherwise the call waits for the traffic condition, which the provider
\* gives for the hour of the day or fails to give.
GetTravelTime(c, origin, destination, vehicleType, hour, rejects) ==
  /\ travel[c].pc = "idle"
  /\ LET cacheKey == CacheKey(origin, destination)
         started == [pc |-> "idle", origin |-> origin, destination |-> destination,
                     vehicleType |-> vehicleType, trafficCondition |-> "",
                     result |-> NoEstimate, cached |-> FALSE, calledAt |-> clock,
                     settled |-> "none"]
     IN travel' =
          [travel EXCEPT ![c] =
             IF CacheHit(trafficCache, cacheKey, clock)
               THEN [started EXCEPT !.result = trafficCache[cacheKey].data,
                                    !.cached = TRUE,
                                    !.settled = "fulfilled"]
               ELSE [started EXCEPT !.pc = "awaiting",
                                    !.trafficCondition =
                                       IF rejects THEN "rejected"
                                       ELSE getTrafficCondition(hour)]]
  /\ UNCHANGED <<trafficCache, hospitals, optimized, reply, scores, handed, pass, internal>>
  /\ UNCHANGED <<auditVars, tripVars>>

\* getTravelTime resumed: the estimate is stored and returned, or the catch
\* block returns the fallback.
GetTravelTimeResume(c) ==
  /\ travel[c].pc = "awaiting"
  /\ LET t == travel[c]
         r == IF t.trafficCondition = "rejected"
                THEN getTravelTimeCatch(trafficCache, t.origin, t.destination, clock)
                ELSE getTravelTimeTry(trafficCache, t.origin, t.destination,
                                      t.vehicleType, t.trafficCondition, clock)
     IN /\ trafficCache' = r.trafficCache
        /\ travel' = [travel EXCEPT ![c] = [t EXCEPT !.pc = "idle",
                                                     !.result = r.data,
                                                     !.settled = "fulfilled"]]
  /\ UNCHANGED <<hospitals, optimized, reply, scores, handed, pass, internal>>
  /\ UNCHANGED <<auditVars, tripVars>>

ClearCache ==
  /\ trafficCache' = clearCache(trafficCache, clock)
  /\ UNCHANGED <<travel, hospitals, optimized, reply, scores, handed, pass, internal>>
  /\ UNCHANGED <<auditVars, tripVars>>

\* Advances of the clock that end just before, at and just after the expiry
\* of an entry stored at the instant they start from.
TravelSteps == {cacheExpiry - 1, cacheExpiry, cacheExpiry + 1}

\* Where the ambulance is and where it may be sent.
Scene == 1000
Nearby == 2000
Distant == 101000

\* Hours of the day at which the provider is asked: rush hour and night.
Hours == {8, 22}

\* ------------------------------------------------------------- optimization engine
\* Weights and confidences are in hundredths.
MaxHospitals == 2    \* hospitals in the collection
MaxScore == 100

Maximum(a, b) == IF a > b THEN a ELSE b
Minimum(a, b) == IF a < b THEN a ELSE b

\* Weights of which the last one counts against the hospital.
weightsPenalising ==
  [predictedAvailability |-> 30, specialistPresence |-> 20, travelTime |-> 25,
   equipmentMatch |-> 15, currentLoad |-> 0 - 10]

weights ==
  [predictedAvailability |-> 30, specialistPresence |-> 20, travelTime |-> 25,
   equipmentMatch |-> 15, currentLoad |-> 10]

Hospital(id, name, address, pos, beds, icu, specialists, equipment, load, status) ==
  [_id |-> id, name |-> name,
   location |-> [pos |-> pos, address |-> address],
   capacity |-> [availableBeds |-> beds, availableICU |-> icu],
   specialists |-> specialists, equipment |-> equipment,
   currentLoad |-> load, status |-> status]

PatientCondition(condition, severity, requiredSpecialty) ==
  [condition |-> condition, severity |-> severity,
   requiredSpecialty |-> requiredSpecialty]

\* The first point of a forecast; the optimizer reads no other.
ForecastPoint(beds, icu, confidence) ==
  [predictedBeds |-> beds, predictedICU |-> icu, confidence |-> confidence]

\* What predictHospitalReadiness can give for the nearest hour: the history
\* it smooths is drawn at random, ICU between 2 and 6 and beds between 8 and
\* 34, whatever the hospital holds.
ForecastPoints == {ForecastPoint(10, 2, 94), ForecastPoint(30, 6, 94)}

\* A forecast that failed.
NoForecast == ForecastPoint(0 - 1, 0 - 1, 0)

\* A default prediction that holds no point.
getHospitalPredictionNone(hospital, forecast) ==
  IF forecast = NoForecast
    THEN [hospitalId |-> hospital._id, hospitalName |-> "", predictions |-> << >>]
    ELSE [hospitalId |-> hospital._id, hospitalName |-> hospital.name,
          predictions |-> <<forecast>>]

\* getHospitalPrediction: the forecast, or the default built from the
\* hospital's present capacity when the forecast fails (the default carries
\* no hospitalName).
getHospitalPrediction(hospital, forecast) ==
  IF forecast = NoForecast
    THEN [hospitalId |-> hospital._id, hospitalName |-> "",
          predictions |-> <<ForecastPoint(hospital.capacity.availableBeds,
                                          hospital.capacity.availableICU, 50)>>]
    ELSE [hospitalId |-> hospital._id, hospitalName |-> hospital.name,
          predictions |-> <<forecast>>]

calculateAvailabilityScore(prediction, patientCondition) ==
  LET isCritical == patientCondition.severity \in {"critical", "severe"}
  IN IF prediction.predictions = << >> THEN 50
     ELSE LET pred == prediction.predictions[1]
          IN IF isCritical
               THEN Round(100 * pred.predictedICU, Maximum(1, pred.predictedICU + 2))
               ELSE Minimum(100, Round(100 * pred.predictedBeds,
                                       Maximum(10, pred.predictedBeds + 5)))

calculateSpecialistScore(hospital, patientCondition) ==
  LET requiredSpecialty == patientCondition.requiredSpecialty
  IN IF requiredSpecialty = "" THEN 70
     ELSE IF \E i \in DOMAIN hospital.specialists :
               /\ hospital.specialists[i].specialty = requiredSpecialty
               /\ hospital.specialists[i].available
            THEN 100
            ELSE 30

calculateTravelScore(traffic) ==
  LET duration == traffic.durationInTraffic
  IN IF duration <= 10 THEN 100
     ELSE IF duration <= 15 THEN 90
     ELSE IF duration <= 20 THEN 80
     ELSE IF duration <= 30 THEN 70
     ELSE IF duration <= 45 THEN 60
     ELSE IF duration <= 60 THEN 50
     ELSE Maximum(20, 70 - (duration - 45))

getRequiredEquipment(condition) ==
  CASE condition = "cardiac-arrest" -> {"cathLab", "bloodBank"}
    [] condition = "stroke" -> {"ctScan", "mri"}
    [] condition = "trauma" -> {"xray", "ctScan", "bloodBank"}
    [] condition = "accident" -> {"xray", "ctScan", "bloodBank"}
    [] condition = "respiratory" -> {"ventilator", "oxygenSupply"}
    [] condition = "burns" -> {"bloodBank"}
    [] condition = "poisoning" -> {"bloodBank"}
    [] condition = "seizure" -> {"ctScan", "mri"}
    [] OTHER -> {}

calculateEquipmentScore(hospital, patientCondition) ==
  LET requiredEquipment == getRequiredEquipment(patientCondition.condition)
  IN IF requiredEquipment = {} THEN 80
     ELSE Round(100 * Cardinality(requiredEquipment \cap hospital.equipment),
                Cardinality(requiredEquipment))

calculateLoadScore(hospital) ==
  CASE hospital.currentLoad = "low" -> 100
    [] hospital.currentLoad = "moderate" -> 75
    [] hospital.currentLoad = "high" -> 50
    [] hospital.currentLoad = "critical" -> 25
    [] OTHER -> 60

\* The weighted sum of the five sub-scores, in hundredths.
WeightedSum(a, s, t, e, l) ==
  a * weights.predictedAvailability + s * weights.specialistPresence
    + t * weights.travelTime + e * weights.equipmentMatch + l * weights.currentLoad

\* Math.round of the weighted sum. The sum is computed in binary floating
\* point: for the values the five calculators return it rounds as the exact
\* sum does, a half going up.
RoundedComposite(a, s, t, e, l) == Round(WeightedSum(a, s, t, e, l), 100)

\* What Math.round of the weighted sum can give for any five integers: where
\* the exact sum ends in a half, the computed sum may fall just below it, and
\* the result is either neighbour.
CompositeOutcomes(a, s, t, e, l) ==
  LET sum == WeightedSum(a, s, t, e, l)
  IN IF sum % 100 = 50 THEN {sum \div 100, sum \div 100 + 1}
     ELSE {Round(sum, 100)}

calculateCompositeScore(hospital, prediction, traffic, patientCondition) ==
  LET availabilityScore == calculateAvailabilityScore(prediction, patientCondition)
      specialistScore == calculateSpecialistScore(hospital, patientCondition)
      travelScore == calculateTravelScore(traffic)
      equipmentScore == calculateEquipmentScore(hospital, patientCondition)
      loadScore == calculateLoadScore(hospital)
  IN [compositeScore |-> RoundedComposite(availabilityScore, specialistScore,
                                          travelScore, equipmentScore, loadScore),
      availabilityScore |-> availabilityScore,
      specialistScore |-> specialistScore,
      travelScore |-> travelScore,
      equipmentScore |-> equipmentScore,
      loadScore |-> loadScore,
      predictionConfidence |->
        IF prediction.predictions = << >> \/ prediction.predictions[1].confidence = 0
          THEN 50
          ELSE prediction.predictions[1].confidence]

\* An insertion that puts a candidate before those of equal score.
InsertByScoreFirst(sorted, x) ==
  LET before == {i \in 1..Len(sorted) :
                   sorted[i].scores.compositeScore > x.scores.compositeScore}
      n == Cardinality(before)
  IN SubSeq(sorted, 1, n) \o <<x>> \o SubSeq(sorted, n + 1, Len(sorted))

\* One step of the stable sort by descending composite score: `x`, which
\* followed the members of `sorted` in the list, goes after every member
\* whose score is not lower.
InsertByScore(sorted, x) ==
  LET before == {i \in 1..Len(sorted) :
                   sorted[i].scores.compositeScore >= x.scores.compositeScore}
      n == Cardinality(before)
  IN SubSeq(sorted, 1, n) \o <<x>> \o SubSeq(sorted, n + 1, Len(sorted))

RECURSIVE SortByScore(_)
\* scoredHospitals.sort((a, b) => b.scores.compositeScore - a.scores.compositeScore)
SortByScore(list) ==
  IF list = << >> THEN << >>
  ELSE InsertByScore(SortByScore(SubSeq(list, 1, Len(list) - 1)), list[Len(list)])

NoResponse ==
  [destination |-> [hospitalId |-> ""],
   navigation |-> [distance |-> 0, estimatedTime |-> 0, trafficCondition |-> "",
                   routeCoordinates |-> << >>],
   patientInfo |-> [condition |-> "", severity |-> "", requiredSpecialty |-> "",
                    eta |-> 0],
   metadata |-> [processedAt |-> 0 - 1, processingTimeMs |-> 0,
                 systemVersion |-> "", algorithm |-> ""]]

\* A response that also names the destination.
createSecureResponseNaming(optimalHospital, patientCondition, processingTime, at) ==
  [destination |-> [hospitalId |-> optimalHospital.hospitalName],
   navigation |-> [distance |-> optimalHospital.traffic.distance,
                   estimatedTime |-> optimalHospital.traffic.durationInTraffic,
                   trafficCondition |-> optimalHospital.traffic.trafficCondition,
                   routeCoordinates |-> optimalHospital.traffic.route.coordinates],
   patientInfo |-> [condition |-> patientCondition.condition,
                    severity |-> patientCondition.severity,
                    requiredSpecialty |-> patientCondition.requiredSpecialty,
                    eta |-> optimalHospital.traffic.durationInTraffic],
   metadata |-> [processedAt |-> at, processingTimeMs |-> processingTime,
                 systemVersion |-> "2.0.0",
                 algorithm |-> "multi-criteria-optimization"]]

createSecureResponse(optimalHospital, patientCondition, processingTime, at) ==
  [destination |-> [hospitalId |-> optimalHospital.hospitalId],
   navigation |-> [distance |-> optimalHospital.traffic.distance,
                   estimatedTime |-> optimalHospital.traffic.durationInTraffic,
                   trafficCondition |-> optimalHospital.traffic.trafficCondition,
                   routeCoordinates |-> optimalHospital.traffic.route.coordinates],
   patientInfo |-> [condition |-> patientCondition.condition,
                    severity |-> patientCondition.severity,
                    requiredSpecialty |-> patientCondition.requiredSpecialty,
                    eta |-> optimalHospital.traffic.durationInTraffic],
   metadata |-> [processedAt |-> at, processingTimeMs |-> processingTime,
                 systemVersion |-> "2.0.0",
                 algorithm |-> "multi-criteria-optimization"]]

\* The arguments a pass was called with and the cache as it found it, kept
\* next to its locals and its result.
NoOptimized ==
  [settled |-> "none", hospitals |-> << >>, patientLocation |-> 0,
   patientCondition |-> PatientCondition("", "", ""), forecasts |-> << >>,
   trafficCondition |-> "", cache |-> EmptyCache, startTime |-> 0 - 1,
   scored |-> << >>, scoredHospitals |-> << >>, response |-> NoResponse]

\* The travel estimate each candidate gets: every getTravelTime of the pass
\* checks the cache before any of them stores its result.
TrafficData(cache, candidates, patientLocation, trafficCondition, at) ==
  [i \in DOMAIN candidates |->
     LET destination == candidates[i].location.pos
         cacheKey == CacheKey(patientLocation, destination)
     IN IF CacheHit(cache, cacheKey, at) THEN cache[cacheKey].data
        ELSE IF trafficCondition = "rejected"
          THEN getTravelTimeCatch(cache, patientLocation, destination, at).data
          ELSE getTravelTimeTry(cache, patientLocation, destination, "ambulance",
                                trafficCondition, at).data]

\* The cache after the getTravelTime calls of a pass have stored their results.
TrafficStored(cache, candidates, patientLocation, trafficCondition, at) ==
  LET misses == {CacheKey(patientLocation, candidates[i].location.pos) :
                   i \in {j \in DOMAIN candidates :
                            ~CacheHit(cache,
                                      CacheKey(patientLocation, candidates[j].location.pos),
                                      at)}}
  IN IF trafficCondition = "rejected" THEN cache
     ELSE [key \in DOMAIN cache \cup misses |->
             IF key \in misses
               THEN getTravelTimeTry(cache, key[1], key[2], "ambulance",
                                     trafficCondition, at).trafficCache[key]
               ELSE cache[key]]

\* optimizeHospitalSelection: predictions and travel estimates for every
\* candidate, the scores, the sort, and the secure response built from the
\* first of the sorted list. With no candidate there is no first and the call
\* fails.
optimizeHospitalSelection(cache, candidates, patientLocation, patientCondition, forecasts, trafficCondition, at) ==
  LET hospitalPredictions ==
        [i \in DOMAIN candidates |-> getHospitalPrediction(candidates[i], forecasts[i])]
      trafficData ==
        TrafficData(cache, candidates, patientLocation, trafficCondition, at)
      scored ==
        [i \in DOMAIN candidates |->
           [hospitalId |-> candidates[i]._id,
            hospitalName |-> candidates[i].name,
            scores |-> calculateCompositeScore(candidates[i], hospitalPredictions[i],
                                               trafficData[i], patientCondition),
            traffic |-> trafficData[i],
            prediction |-> hospitalPredictions[i]]]
      scoredHospitals == SortByScore(scored)
  IN [trafficCache |->
        TrafficStored(cache, candidates, patientLocation, trafficCondition, at),
      optimized |->
        [settled |-> IF candidates = << >> THEN "rejected" ELSE "fulfilled",
         hospitals |-> candidates,
         patientLocation |-> patientLocation,
         patientCondition |-> patientCondition,
         forecasts |-> forecasts,
         trafficCondition |-> trafficCondition,
         cache |-> cache,
         startTime |-> at,
         scored |-> scored,
         scoredHospitals |-> scoredHospitals,
         response |->
           IF candidates = << >> THEN NoResponse
           ELSE createSecureResponse(scoredHospitals[1], patientCondition, 0, at)]]

\* Hospital.find of POST /calculate: the hospitals that take patients and
\* have a bed or an ICU place free, in the order of the collection.
RECURSIVE FindAvailable(_)
FindAvailable(list) ==
  IF list = << >> THEN << >>
  ELSE LET h == list[1]
           rest == FindAvailable(SubSeq(list, 2, Len(list)))
       IN IF /\ h.status \in {"active", "emergency-only"}
             /\ (h.capacity.availableBeds > 0 \/ h.capacity.availableICU > 0)
            THEN <<h>> \o rest
            ELSE rest

NoReply == [status |-> 0, error |-> "", body |-> NoResponse, decision |-> ""]

\* ------------------------------------------------------------- a pass, await by await
NoPrediction == [hospitalId |-> "", hospitalName |-> "", predictions |-> << >>]

\* A pass in progress: the arguments, the forecast each getHospitalPrediction
\* got, the calls not settled yet, the order in which the others settled, and
\* the locals hospitalPredictions, trafficData and scoredHospitals.
NoPass ==
  [phase |-> "idle", hospitals |-> << >>, patientLocation |-> 0,
   patientCondition |-> PatientCondition("", "", ""), startTime |-> 0 - 1,
   forecasts |-> << >>, pendingPredictions |-> {}, predictionOrder |-> << >>,
   pendingTravel |-> {}, travelOrder |-> << >>,
   hospitalPredictions |-> << >>, trafficData |-> << >>,
   scored |-> << >>, scoredHospitals |-> << >>, response |-> NoResponse]

\* A Promise.all that hands on the values in the order its promises settled;
\* `arrived` of them have settled before.
PromiseAllArrival(values, index, arrived, value) ==
  [values EXCEPT ![arrived + 1] = value]

\* Promise.all: the value of the promise at `index` takes that place in the
\* array handed on, whenever it settles.
PromiseAll(values, index, arrived, value) == [values EXCEPT ![index] = value]

\* Step 3 of optimizeHospitalSelection: every candidate with its scores, its
\* travel estimate and its prediction.
ScoreHospitals(candidates, hospitalPredictions, trafficData, patientCondition) ==
  [i \in DOMAIN candidates |->
     [hospitalId |-> candidates[i]._id,
      hospitalName |-> candidates[i].name,
      scores |-> calculateCompositeScore(candidates[i], hospitalPredictions[i],
                                         trafficData[i], patientCondition),
      traffic |-> trafficData[i],
      prediction |-> hospitalPredictions[i]]]

\* Steps 3 to 6, run once the second Promise.all has handed on its array.
ScoreAndSelect(p, at) ==
  LET scored == ScoreHospitals(p.hospitals, p.hospitalPredictions, p.trafficData,
                               p.patientCondition)
      scoredHospitals == SortByScore(scored)
  IN [p EXCEPT !.phase = "fulfilled",
               !.scored = scored,
               !.scoredHospitals = scoredHospitals,
               !.response = createSecureResponse(scoredHospitals[1], p.patientCondition,
                                                 at - p.startTime, at)]

\* Step 2 entered: every getTravelTime checks the cache; a call that finds a
\* fresh entry is settled with it, the others wait for the traffic condition.
\* With every call served from the cache the pass goes on to the scores.
StartTravel(p, cache, at) ==
  LET hits == {i \in DOMAIN p.hospitals :
                 CacheHit(cache, CacheKey(p.patientLocation, p.hospitals[i].location.pos),
                          at)}
      started ==
        [p EXCEPT
           !.phase = "travelling",
           !.pendingTravel = DOMAIN p.hospitals \ hits,
           !.trafficData =
              [i \in DOMAIN p.hospitals |->
                 IF i \in hits
                   THEN cache[CacheKey(p.patientLocation,
                                       p.hospitals[i].location.pos)].data
                   ELSE NoEstimate]]
  IN IF hits = DOMAIN p.hospitals THEN ScoreAndSelect(started, at) ELSE started

\* optimizeHospitalSelection up to its first await: a getHospitalPrediction
\* is under way for every candidate.
OptimizeBegin(patientLocation, patientCondition) ==
  /\ pass.phase \in {"idle", "fulfilled"}
  /\ FindAvailable(hospitals) # << >>
  /\ LET candidates == FindAvailable(hospitals)
     IN pass' = [NoPass EXCEPT
                   !.phase = "predicting",
                   !.hospitals = candidates,
                   !.patientLocation = patientLocation,
                   !.patientCondition = patientCondition,
                   !.startTime = clock,
                   !.forecasts = [i \in DOMAIN candidates |-> NoForecast],
                   !.pendingPredictions = DOMAIN candidates,
                   !.hospitalPredictions = [i \in DOMAIN candidates |-> NoPrediction]]
  /\ UNCHANGED <<trafficCache, travel, hospitals, optimized, reply, scores, handed,
                 internal>>
  /\ UNCHANGED <<auditVars, tripVars>>

\* The getHospitalPrediction of candidate `i` settles, with a forecast or
\* with the default after a failure; after the last one the travel calls
\* are made.
PredictionSettles(i, forecast) ==
  /\ pass.phase = "predicting"
  /\ i \in pass.pendingPredictions
  /\ LET settled ==
           [pass EXCEPT
              !.forecasts[i] = forecast,
              !.pendingPredictions = @ \ {i},
              !.predictionOrder = Append(@, i),
              !.hospitalPredictions =
                 PromiseAll(@, i,
                            Cardinality(DOMAIN pass.hospitals \ pass.pendingPredictions),
                            getHospitalPrediction(pass.hospitals[i], forecast))]
     IN pass' = IF settled.pendingPredictions = {}
                  THEN StartTravel(settled, trafficCache, clock)
                  ELSE settled
  /\ UNCHANGED <<trafficCache, travel, hospitals, optimized, reply, scores, handed,
                 internal>>
  /\ UNCHANGED <<auditVars, tripVars>>

\* The getTravelTime of candidate `i` settles: with the estimate, which it
\* stores, or with the fallback when the provider failed; after the last one
\* the candidates are scored and the first of the sorted list is returned.
TravelSettles(i, rejects) ==
  /\ pass.phase = "travelling"
  /\ i \in pass.pendingTravel
  /\ LET destination == pass.hospitals[i].location.pos
         r == IF rejects
                THEN getTravelTimeCatch(trafficCache, pass.patientLocation,
                                        destination, clock)
                ELSE getTravelTimeTry(trafficCache, pass.patientLocation, destination,
                                      "ambulance", "light", clock)
         settled ==
           [pass EXCEPT
              !.pendingTravel = @ \ {i},
              !.travelOrder = Append(@, i),
              !.trafficData =
                 PromiseAll(@, i, Cardinality(DOMAIN pass.hospitals \ pass.pendingTravel),
                            r.data)]
     IN /\ trafficCache' = r.trafficCache
        /\ pass' = IF settled.pendingTravel = {}
                     THEN ScoreAndSelect(settled, clock)
                     ELSE settled
  /\ UNCHANGED <<travel, hospitals, optimized, reply, scores, handed, internal>>
  /\ UNCHANGED <<auditVars, tripVars>>

\* ------------------------------------------------------------- control room
NoScoreSet ==
  [compositeScore |-> 0, availabilityScore |-> 0, specialistScore |-> 0,
   travelScore |-> 0, equipmentScore |-> 0, loadScore |-> 0,
   predictionConfidence |-> 0]

NoRecommendation ==
  [hospitalId |-> "", hospitalName |-> "", hospitalAddress |-> "",
   scores |-> NoScoreSet, traffic |-> NoEstimate, prediction |-> NoPrediction,
   selected |-> FALSE]

\* The arguments of a getInternalRecommendations, the forecasts its two
\* scoring passes got, the answer of the first pass and the result.
NoInternal ==
  [settled |-> "none", hospitals |-> << >>, patientCondition |-> PatientCondition("", "", ""),
   forecasts |-> << >>, forecastsAgain |-> << >>, allHospitals |-> NoResponse,
   recommendations |-> << >>, optimalHospital |-> NoRecommendation]

\* getInternalRecommendations: optimizeHospitalSelection, then a second
\* prediction and travel estimate for every hospital, the scores computed
\* from these, the flag of the hospital the first pass returned, and the
\* sort. With no hospital the first pass fails and so does the call.
getInternalRecommendations(cache, list, patientLocation, patientCondition, forecasts, forecastsAgain, trafficCondition, trafficAgain, at) ==
  LET first == optimizeHospitalSelection(cache, list, patientLocation, patientCondition,
                                         forecasts, trafficCondition, at)
      allHospitals == first.optimized.response
      trafficData == TrafficData(first.trafficCache, list, patientLocation,
                                 trafficAgain, at)
      scored ==
        [i \in DOMAIN list |->
           LET prediction == getHospitalPrediction(list[i], forecastsAgain[i])
           IN [hospitalId |-> list[i]._id,
               hospitalName |-> list[i].name,
               hospitalAddress |-> list[i].location.address,
               scores |-> calculateCompositeScore(list[i], prediction, trafficData[i],
                                                  patientCondition),
               traffic |-> trafficData[i],
               prediction |-> prediction,
               selected |-> list[i]._id = allHospitals.destination.hospitalId]]
      scoredHospitals == SortByScore(scored)
  IN [trafficCache |->
        IF list = << >> THEN cache
        ELSE TrafficStored(first.trafficCache, list, patientLocation, trafficAgain, at),
      internal |->
        [settled |-> IF list = << >> THEN "rejected" ELSE "fulfilled",
         hospitals |-> list,
         patientCondition |-> patientCondition,
         forecasts |-> forecasts,
         forecastsAgain |-> forecastsAgain,
         allHospitals |-> allHospitals,
         recommendations |-> IF list = << >> THEN << >> ELSE scoredHospitals,
         optimalHospital |->
           IF list = << >> THEN NoRecommendation ELSE scoredHospitals[1]]]


\* ------------------------------------------------------------- optimization inputs
Cardiology == <<[specialty |-> "cardiology", available |-> TRUE]>>
OffDuty == <<[specialty |-> "cardiology", available |-> FALSE]>>
CathAndBlood == {"cathLab", "bloodBank"}

\* H1: no ICU place, no cardiologist, critical load, one kilometre away.
H1 == Hospital("h1", "Northside", "1 North Rd", Nearby, 5, 0, << >>, CathAndBlood,
               "critical", "active")
\* H2: five ICU places, a cardiologist, low load, a hundred kilometres away.
H2 == Hospital("h2", "Central", "2 Main St", Distant, 10, 5, Cardiology, CathAndBlood,
               "low", "active")
\* H3: next to H1 and scoring as H1 does.
H3 == Hospital("h3", "Eastside", "3 East Ave", Nearby, 3, 2, OffDuty, CathAndBlood,
               "critical", "emergency-only")
\* H4: inactive, which Hospital.find leaves out.
H4 == Hospital("h4", "Westside", "4 West Blvd", Nearby, 8, 4, Cardiology, CathAndBlood,
               "low", "inactive")
HospitalPool == {H1, H2, H3, H4}

\* Collections of up to MaxHospitals distinct hospitals.
HospitalLists ==
  {list \in UNION {[1..n -> HospitalPool] : n \in 1..MaxHospitals} :
     \A i, j \in DOMAIN list : i # j => list[i] # list[j]}

Critical == PatientCondition("cardiac-arrest", "critical", "cardiology")
Stable == PatientCondition("fever", "stable", "")
PatientConditions == {Critical, Stable}
\* A request body whose condition field is missing.
NoCondition == PatientCondition("", "critical", "")

\* Forecasts for each of `n` candidates: a point for every one of them, or
\* the forecast of one of them failing while the others get the lower point.
ForecastsFor(n) ==
  [1..n -> ForecastPoints]
    \cup {[i \in 1..n |-> IF i = k THEN NoForecast ELSE ForecastPoint(10, 2, 94)] :
            k \in 1..n}

\* Traffic conditions a pass may meet; "rejected" is the provider failing.
TrafficConditions == {"light", "rejected"}

\* ------------------------------------------------------------- optimization actions
TravelInit ==
  /\ trafficCache = EmptyCache
  /\ travel = [c \in Callers |-> NoTravel]

OptimizerInit ==
  /\ optimized = NoOptimized
  /\ reply = NoReply
  /\ handed = {}
  /\ pass = NoPass
  /\ internal = NoInternal

Scores(a, s, t, e, l, composite, varied) ==
  [availabilityScore |-> a, specialistScore |-> s, travelScore |-> t,
   equipmentScore |-> e, loadScore |-> l, compositeScore |-> composite,
   varied |-> varied]
NoScores == Scores(0, 0, 0, 0, 0, 0, "none")

RoutingInit ==
  /\ TravelInit
  /\ OptimizerInit
  /\ hospitals = << >>
  /\ scores = NoScores

\* POST /calculate: validation, the candidates, the optimization, the routing
\* decision handed to the ledger and the answer.
Calculate(patientLocation, patientCondition, forecasts, trafficCondition) ==
  LET candidates == FindAvailable(hospitals)
      r == optimizeHospitalSelection(trafficCache, candidates, patientLocation,
                                     patientCondition, forecasts, trafficCondition,
                                     clock)
  IN /\ IF patientLocation = 0
          THEN /\ reply' = [NoReply EXCEPT !.status = 400,
                                           !.error = "Patient location is required"]
               /\ UNCHANGED <<trafficCache, optimized, handed>>
        ELSE IF patientCondition.condition = "" \/ patientCondition.severity = ""
          THEN /\ reply' = [NoReply EXCEPT
                              !.status = 400,
                              !.error = "Patient condition details are required"]
               /\ UNCHANGED <<trafficCache, optimized, handed>>
        ELSE IF candidates = << >>
          THEN /\ reply' = [NoReply EXCEPT
                              !.status = 404,
                              !.error = "No hospitals with available capacity found"]
               /\ UNCHANGED <<trafficCache, optimized, handed>>
        ELSE /\ trafficCache' = r.trafficCache
             /\ optimized' = r.optimized
             /\ reply' = [status |-> 200, error |-> "",
                          body |-> r.optimized.response,
                          decision |-> r.optimized.response.destination.hospitalId]
             /\ handed' = handed \cup {Handed(logRoutingDecision(NoPatient), "", 0 - 1)}
     /\ UNCHANGED <<travel, hospitals, scores, pass, internal>>
     /\ UNCHANGED <<auditVars, tripVars>>

\* A call of the control room on the hospitals that can take the patient.
GetInternalRecommendations(patientLocation, patientCondition, forecasts, forecastsAgain, trafficCondition, trafficAgain) ==
  /\ LET r == getInternalRecommendations(trafficCache, FindAvailable(hospitals),
                                         patientLocation, patientCondition, forecasts,
                                         forecastsAgain, trafficCondition, trafficAgain,
                                         clock)
     IN /\ trafficCache' = r.trafficCache
        /\ internal' = r.internal
  /\ UNCHANGED <<travel, hospitals, optimized, reply, scores, handed, pass>>
  /\ UNCHANGED <<auditVars, tripVars>>


\* ------------------------------------------------------------- composite score
SubScores ==
  {"availabilityScore", "specialistScore", "travelScore", "equipmentScore", "loadScore"}

\* Values the four sub-scores held fixed may have.
ScoreGrid == {0, 50, MaxScore}

\* The sub-score named `varied` at 0 and the four others anywhere on the grid.
StartScores ==
  {Scores(a, s, t, e, l, c, varied) :
     <<a, s, t, e, l, c, varied>> \in
       {x \in ScoreGrid \X ScoreGrid \X ScoreGrid \X ScoreGrid \X ScoreGrid
                 \X (0..MaxScore) \X SubScores :
          /\ Scores(x[1], x[2], x[3], x[4], x[5], 0, "none")[x[7]] = 0
          /\ x[6] \in CompositeOutcomes(x[1], x[2], x[3], x[4], x[5])}}

\* The composite score computed again after the varied sub-score went up by one.
RaiseScore ==
  /\ scores[scores.varied] < MaxScore
  /\ LET raised == [scores EXCEPT ![scores.varied] = @ + 1]
     IN \E c \in CompositeOutcomes(raised.availabilityScore, raised.specialistScore,
                                   raised.travelScore, raised.equipmentScore,
                                   raised.loadScore) :
          scores' = [raised EXCEPT !.compositeScore = c]
  /\ UNCHANGED <<trafficCache, travel, hospitals, optimized, reply, handed, pass, internal>>
  /\ UNCHANGED <<auditVars, tripVars>>

\* ------------------------------------------------------------- travel score
MaxDuration == 120   \* longest traffic-adjusted duration scored, in minutes

\* The travel sub-score of an estimate of `duration` minutes, kept with it.
TravelScored(duration) ==
  [duration |-> duration] @@
    [NoScores EXCEPT !.travelScore = calculateTravelScore([durationInTraffic |-> duration]),
                     !.varied = "durationInTraffic"]

\* The travel sub-score computed again for a trip one minute longer.
LengthenTrip ==
  /\ scores.duration < MaxDuration
  /\ scores' = TravelScored(scores.duration + 1)
  /\ UNCHANGED <<trafficCache, travel, hospitals, optimized, reply, handed, pass,
                 internal>>
  /\ UNCHANGED <<auditVars, tripVars>>


\* ============================================================= specifications
Init == AuditInit /\ TripInit /\ RoutingInit

\* Calls on the ledger, until the store holds `cap` entries; `sequential`
\* makes a caller wait for the others.
AuditNext(calls, sequential, cap) ==
  \/ \E p \in Procs, c \in calls :
       /\ Len(db) + InFlight < cap
       /\ sequential => AllIdle
       /\ CreateLogEntry(p, c)
  \/ \E p \in Procs : DbFindOne(p)
  \/ \E p \in Procs : GetPreviousHashResume(p)
  \/ \E p \in Procs : DbCreate(p)
  \/ \E p \in Procs : DbCreateFails(p)
  \/ \E p \in Procs : CreateLogEntryResume(p)
  \/ Tick
  \/ Restart
  \/ VerifyIntegrity

\* Concurrent callers of the ledger.
Next == AuditNext(ChainCalls, FALSE, MaxEntries)
Spec == Init /\ [][Next]_vars

\* Sequential appends: each createLogEntry completes before the next starts.
SeqNext == AuditNext(ChainCalls, TRUE, MaxEntries)
SeqSpec == Init /\ [][SeqNext]_vars

\* Sequential appends through every helper, with every payload.
VocabNext == AuditNext(AllCalls, TRUE, MaxEntries - 1)
VocabSpec == Init /\ [][VocabNext]_vars

\* Sequential appends and one change made to the store from outside.
TamperNext ==
  \/ AuditNext(ChainCalls, TRUE, MaxEntries)
  \/ \E i \in 1..MaxEntries : TamperDetails(i, Details(Patient("Mallory", "000"), NoPatient))
  \/ \E i \in 1..MaxEntries, j \in 1..MaxEntries : ExchangeEntries(i, j)
TamperSpec == Init /\ [][TamperNext]_vars

\* The trip monitor: tracking of every trip.
TripNext == TrackingNext(TripIds)
TripSpec == Init /\ [][TripNext]_vars

\* The trip monitor: one trip reporting a long uninterrupted run.
RunNext ==
  \/ \E route \in Routes : StartTracking("r1", route)
  \/ TrackAlong("r1")
  \/ \E withFinal \in BOOLEAN : StopAlong("r1", withFinal)
RunSpec == Init /\ [][RunNext]_vars

\* The trip monitor: one trip with samples and delays around the thresholds.
DeviationNext ==
  \/ StartTracking("r1", MainRoute)
  \/ \E location \in ThresholdSamples : UpdateLocation("r1", location)
  \/ \E step \in ClockSteps : AdvanceClockBy(step)
DeviationSpec == Init /\ [][DeviationNext]_vars

\* The trip monitor: one trip completed through PUT /complete.
CompleteNext ==
  \/ \E route \in Routes : StartTracking("r1", route)
  \/ \E location \in Samples : UpdateLocation("r1", location)
  \/ \E final \in {NoLocation, Location(1000, 90)} : Complete("r1", final)
  \/ CompleteResume("r1")
  \/ CompleteFails("r1")
  \/ AdvanceClock
CompleteSpec == Init /\ [][CompleteNext]_vars

\* The trip monitor: one trip, its alerts and the two queries.
QueryNext ==
  \/ StartTracking("r1", MainRoute)
  \/ UpdateLocation("r1", Location(201, NoHeading))
  \/ StopTracking("r1", NoLocation)
  \/ \E a \in AlertIds : AcknowledgeAlert("r1", a)
  \/ \E a \in AlertIds : ResolveAlert("r1", a, "rerouted")
  \/ \E id \in TripIds : GetTrackingStatus(id)
  \/ GetAllActiveTracked
  \/ AdvanceClock
QuerySpec == Init /\ [][QueryNext]_vars

\* The trip monitor: one trip and its alerts.
AlertsNext ==
  \/ StartTracking("r1", MainRoute)
  \/ UpdateLocation("r1", Location(201, NoHeading))
  \/ \E final \in {NoLocation, Location(1000, 90)} : StopTracking("r1", final)
  \/ AdvanceClock
  \/ AlertNext(TripIds)
  \/ \E a \in AlertIds, res \in Resolutions : DeviationResolve("r1", a, res)
AlertSpec == Init /\ [][AlertsNext]_vars

\* The travel estimator: two callers, the sweep and the clock.
TravelNext ==
  \/ \E c \in Callers, hour \in Hours, rejects \in BOOLEAN :
       GetTravelTime(c, Scene, Nearby, "ambulance", hour, rejects)
  \/ \E c \in Callers : GetTravelTimeResume(c)
  \/ ClearCache
  \/ \E step \in TravelSteps : AdvanceClockBy(step)
TravelSpec == Init /\ [][TravelNext]_vars

\* The optimization engine on a collection drawn from the pool, called
\* through POST /calculate with valid and with incomplete requests.
OptimizeInit ==
  /\ AuditInit
  /\ TripInit
  /\ TravelInit
  /\ OptimizerInit
  /\ hospitals \in HospitalLists
  /\ scores = NoScores
OptimizeNext ==
  \/ \E patientCondition \in PatientConditions,
        forecasts \in ForecastsFor(Len(FindAvailable(hospitals))),
        trafficCondition \in TrafficConditions :
       Calculate(Scene, patientCondition, forecasts, trafficCondition)
  \/ \E patientLocation \in {0, Scene}, patientCondition \in {Critical, NoCondition} :
       /\ patientLocation = 0 \/ patientCondition = NoCondition
       /\ Calculate(patientLocation, patientCondition,
                    [i \in DOMAIN FindAvailable(hospitals) |-> NoForecast], "light")
OptimizeSpec == OptimizeInit /\ [][OptimizeNext]_vars

\* The composite score as one sub-score goes from 0 to 100.
ScoreInit ==
  /\ AuditInit
  /\ TripInit
  /\ TravelInit
  /\ OptimizerInit
  /\ hospitals = << >>
  /\ scores \in StartScores
ScoreNext == RaiseScore
ScoreSpec == ScoreInit /\ [][ScoreNext]_vars

\* The routing operations on one trip: a selection, the tracked trip, its
\* alerts and its completion.
RouteInit ==
  /\ AuditInit
  /\ TripInit
  /\ TravelInit
  /\ OptimizerInit
  /\ hospitals = <<H1, H2>>
  /\ scores = NoScores
RouteNext ==
  \/ Calculate(Scene, Critical, <<NoForecast, NoForecast>>, "light")
  \/ StartTracking("r1", MainRoute)
  \/ \E location \in {Location(201, NoHeading), NoLocation} :
       TrackLocation("r1", location)
  \/ \E a \in AlertIds : DeviationAcknowledge("r1", a)
  \/ \E a \in AlertIds, res \in Resolutions : DeviationResolve("r1", a, res)
  \/ Complete("r1", NoLocation)
  \/ CompleteResume("r1")
  \/ CompleteFails("r1")
  \/ AdvanceClock
RouteSpec == RouteInit /\ [][RouteNext]_vars


\* The optimization engine followed through its awaits, the calls of a pass
\* settling in any order.
JoinNext ==
  \/ \E patientCondition \in PatientConditions : OptimizeBegin(Scene, patientCondition)
  \/ \E i \in 1..MaxHospitals, forecast \in ForecastPoints \cup {NoForecast} :
       PredictionSettles(i, forecast)
  \/ \E i \in 1..MaxHospitals, rejects \in BOOLEAN : TravelSettles(i, rejects)
JoinSpec == OptimizeInit /\ [][JoinNext]_vars


\* The travel sub-score as the duration grows from any number of minutes.
DurationInit ==
  /\ AuditInit
  /\ TripInit
  /\ TravelInit
  /\ OptimizerInit
  /\ hospitals = << >>
  /\ scores \in {TravelScored(duration) : duration \in 0..MaxDuration}
DurationNext == LengthenTrip
DurationSpec == DurationInit /\ [][DurationNext]_vars


\* The travel estimator asked about one long trip for an ambulance and for
\* a vehicle without priority.
VehicleNext ==
  \/ \E c \in Callers, vehicleType \in {"ambulance", "car"}, rejects \in BOOLEAN :
       GetTravelTime(c, Scene, Distant, vehicleType, 22, rejects)
  \/ \E c \in Callers : GetTravelTimeResume(c)
  \/ ClearCache
  \/ \E step \in TravelSteps : AdvanceClockBy(step)
VehicleSpec == Init /\ [][VehicleNext]_vars


\* The control room asking for recommendations on a collection drawn from
\* the pool.
ControlNext ==
  \E patientCondition \in PatientConditions,
     forecasts \in [DOMAIN FindAvailable(hospitals) -> ForecastPoints],
     forecastsAgain \in [DOMAIN FindAvailable(hospitals) -> ForecastPoints],
     trafficAgain \in TrafficConditions :
    GetInternalRecommendations(Scene, patientCondition, forecasts, forecastsAgain,
                               "light", trafficAgain)
ControlSpec == OptimizeInit /\ [][ControlNext]_vars


\* ============================================================= properties
\* ---- AuditLedger

\* C1: no two persisted audit entries were appended with the same
\* previousHash, whatever the interleaving of the createLogEntry calls.
C1_DistinctPreviousHash ==
  \A i \in 1..Len(issued) : \A j \in 1..Len(issued) :
    i # j => issued[i].previousHash # issued[j].previousHash

\* C2: after sequential appends the persisted chain, replayed in timestamp
\* order, starts at the genesis marker and each entry's previousHash is the
\* hash of the entry before it.
C2_ChainLinked ==
  AllIdle =>
    \A s \in SortedOrders(db) :
      /\ Len(s) > 0 => s[1].previousHash = Genesis
      /\ \A i \in 2..Len(s) : s[i].previousHash = s[i - 1].hash

\* C3: verifyIntegrity on an untouched chain of N sequentially appended
\* entries reports isValid = true and totalEntries = N.
C3_VerifyUntouched ==
  (verifyOut.ran /\ AllIdle) =>
    /\ verifyOut.isValid
    /\ verifyOut.totalEntries = Len(db)

\* C4: after the stored detail payload of one persisted entry was changed,
\* verifyIntegrity reports isValid = false, fails at that entry, and reports
\* the total entry count.
C4_TamperLocated ==
  (verifyOut.ran /\ touched.kind = "details") =>
    /\ ~verifyOut.isValid
    /\ verifyOut.failedId = db[touched.at].id
    /\ verifyOut.totalEntries = Len(db)

C6_VerifiableAfterFailure ==
  (verifyOut.ran /\ AllIdle /\ db # << >> /\ \E p \in Procs : outcome[p] = "failed") =>
    verifyOut.isValid

\* C7: an append that finds the cache empty and the store non-empty takes
\* as previousHash the hash of the most recent persisted entry, never the
\* genesis marker.
C7_ColdStartTail ==
  \A p \in Procs :
    (pc[p] = "create" /\ found[p].id # 0) =>
      /\ logData[p].previousHash = issued[found[p].id].hash
      /\ logData[p].previousHash # Genesis

\* C8: every helper of the event vocabulary persists its entry: no
\* createLogEntry is rejected because of its event kind.
C8_VocabularyAccepted ==
  \A p \in Procs : outcome[p] # "invalid"

\* A patient object that still shows a name or a phone number.
Unredacted(patient) ==
  /\ patient.has
  /\ \/ (TruthyField(patient.name) /\ patient.name # Redacted)
     \/ (TruthyField(patient.phone) /\ patient.phone # Redacted)

\* C9: no persisted entry holds an unredacted patient name or phone, in the
\* top-level patient object or in a nested patient sub-object.
C9_NoUnredactedPII ==
  \A i \in 1..Len(db) :
    ~Unredacted(db[i].details.patient) /\ ~Unredacted(db[i].details.nested)

\* ---- TripMonitor

\* C10: updateLocation on a trip id without a session in active storage
\* returns null and leaves the active sessions as they were.
C10_UnknownTripUnchanged ==
  [][\A id \in TripIds : \A location \in Samples :
       (activeTrackedAmbulances[id].status = "none" /\ UpdateLocation(id, location)) =>
         /\ ret'.op = "updateLocation"
         /\ ret'.null
         /\ activeTrackedAmbulances' = activeTrackedAmbulances]_vars

\* C10 witness: updateLocation has just returned null for an unknown trip
\* while another trip is tracked and holds a sample and an alert.
C10_Witness ==
  /\ ret.op = "updateLocation" /\ ret.null
  /\ activeTrackedAmbulances[ret.requestId].status = "none"
  /\ \E id \in TripIds :
       /\ activeTrackedAmbulances[id].status = "tracking"
       /\ Len(activeTrackedAmbulances[id].locationHistory) >= 1
       /\ Len(activeTrackedAmbulances[id].deviationAlerts) >= 1

\* The samples of a history are at most HistoryCap and follow one another in
\* arrival order without a gap.
RecentInOrder(history) ==
  /\ Len(history) <= HistoryCap
  /\ \A i \in 1..(Len(history) - 1) : history[i + 1].pos = history[i].pos + 1

\* C11: the location history of every active trip, and of the terminal
\* session returned by stopTracking, holds at most 100 samples, the most
\* recently appended ones in arrival order.
C11_HistoryBounded ==
  /\ \A id \in TripIds : RecentInOrder(activeTrackedAmbulances[id].locationHistory)
  /\ RecentInOrder(ret.session.locationHistory)

\* C12: an updateLocation call whose sample is deviating appends exactly
\* one alert to the session's alert list and returns that alert in its
\* result; a call whose sample is not deviating leaves the alert list as it
\* was.
C12_AlertCreatedAndReturned ==
  [][\A id \in TripIds : \A location \in Samples :
       (activeTrackedAmbulances[id].status = "tracking" /\ UpdateLocation(id, location)) =>
         LET before == activeTrackedAmbulances[id].deviationAlerts
             after == activeTrackedAmbulances'[id].deviationAlerts
         IN IF ret'.deviationAlert
              THEN /\ Len(after) = Len(before) + 1
                   /\ SubSeq(after, 1, Len(before)) = before
                   /\ ret'.alert = after[Len(after)]
              ELSE after = before]_vars

\* The angle between two headings, in degrees (0..180).
AngleBetween(a, b) ==
  LET d == Abs(a - b) % 360 IN IF d > 180 THEN 360 - d ELSE d

\* r is one of the reasons.
HasReason(reasons, r) == \E i \in 1..Len(reasons) : reasons[i] = r

\* C13: the deviation thresholds are strict. An updateLocation call flags
\* the distance exactly when the sample is more than 200 m from the nearest
\* route vertex, the heading exactly when it deviates from the route heading
\* by more than 45 degrees, and the delay exactly when the call is made more
\* than 5 minutes after the scheduled arrival.
C13_StrictThresholds ==
  [][\A id \in TripIds : \A location \in ThresholdSamples :
       (activeTrackedAmbulances[id].status = "tracking" /\ UpdateLocation(id, location)) =>
         LET session == activeTrackedAmbulances[id]
             route == session.recommendedRoute
             reasons == ret'.deviationDetails.reasons
             nearest ==
               CHOOSE d \in {Abs(location.pos - route.coordinates[i]) :
                               i \in 1..Len(route.coordinates)} :
                 \A i \in 1..Len(route.coordinates) :
                   d <= Abs(location.pos - route.coordinates[i])
             lateMs == clock - (session.startTime + route.durationInTraffic * 60000)
         IN /\ route.coordinates # << >> =>
                 (HasReason(reasons, "Off route") <=> nearest > 200)
            /\ (route.heading # 0 /\ location.heading # NoHeading) =>
                 (HasReason(reasons, "Heading deviation")
                    <=> AngleBetween(location.heading, route.heading) > 45)
            /\ route.durationInTraffic # 0 =>
                 (HasReason(reasons, "minutes behind schedule") <=> lateMs > 5 * 60000)]_vars

\* The alerts held by the active sessions.
AlertsOf(sessions) ==
  UNION {{sessions[id].deviationAlerts[i] : i \in 1..Len(sessions[id].deviationAlerts)} :
           id \in TripIds}

AlertKnown(id, a) ==
  /\ activeTrackedAmbulances[id].status # "none"
  /\ \E i \in 1..Len(activeTrackedAmbulances[id].deviationAlerts) :
       activeTrackedAmbulances[id].deviationAlerts[i].id = a

\* The error of a call that names an unknown trip or an unknown alert.
NotFound(id) ==
  IF activeTrackedAmbulances[id].status = "none"
    THEN "Session not found" ELSE "Alert not found"

\* C15: acknowledgeAlert and resolveAlert on a trip that is not in active
\* storage, or with an alert id that is not in the trip's alert list,
\* signal not-found and leave every session and every alert as it was.
C15_NotFoundUnchanged ==
  [][\A id \in TripIds : \A a \in AlertIds :
       ~AlertKnown(id, a) =>
         /\ AcknowledgeAlert(id, a) =>
              /\ ret'.op = "acknowledgeAlert" /\ ret'.error = NotFound(id)
              /\ activeTrackedAmbulances' = activeTrackedAmbulances
         /\ \A res \in Resolutions :
              ResolveAlert(id, a, res) =>
                /\ ret'.op = "resolveAlert" /\ ret'.error = NotFound(id)
                /\ activeTrackedAmbulances' = activeTrackedAmbulances]_vars

\* C15 witness: acknowledgeAlert has just signalled that the alert was not
\* found on a trip that holds an alert under another id, still
\* unacknowledged.
C15_Witness ==
  /\ ret.op = "acknowledgeAlert" /\ ret.error = "Alert not found"
  /\ Len(activeTrackedAmbulances[ret.requestId].deviationAlerts) >= 1
  /\ \A i \in 1..Len(activeTrackedAmbulances[ret.requestId].deviationAlerts) :
       ~activeTrackedAmbulances[ret.requestId].deviationAlerts[i].acknowledged

\* C16: acknowledgeAlert on a known alert changes the acknowledged flag,
\* actor and time of one alert with that id and nothing else; resolveAlert
\* changes its resolved flag, time and resolution and nothing else; each
\* succeeds whatever the other has done; no other alert, session field or
\* location sample changes.
C16_AcknowledgeResolveIndependent ==
  [][\A id \in TripIds : \A a \in AlertIds :
       AlertKnown(id, a) =>
         LET alerts == activeTrackedAmbulances[id].deviationAlerts IN
         /\ AcknowledgeAlert(id, a) =>
              /\ ret'.error = ""
              /\ \E i \in 1..Len(alerts) :
                   /\ alerts[i].id = a
                   /\ activeTrackedAmbulances' =
                        [activeTrackedAmbulances EXCEPT
                           ![id].deviationAlerts[i].acknowledged = TRUE,
                           ![id].deviationAlerts[i].acknowledgedBy = "u1",
                           ![id].deviationAlerts[i].acknowledgedAt = clock]
         /\ \A res \in Resolutions :
              ResolveAlert(id, a, res) =>
                /\ ret'.error = ""
                /\ \E i \in 1..Len(alerts) :
                     /\ alerts[i].id = a
                     /\ activeTrackedAmbulances' =
                          [activeTrackedAmbulances EXCEPT
                             ![id].deviationAlerts[i].resolved = TRUE,
                             ![id].deviationAlerts[i].resolvedAt = clock,
                             ![id].deviationAlerts[i].resolution = res]]_vars

\* C16 witness: an alert was resolved first and acknowledged later, next to
\* a second alert that neither call touched.
C16_Witness ==
  \E id \in TripIds :
    LET alerts == activeTrackedAmbulances[id].deviationAlerts IN
    /\ Len(alerts) = 2
    /\ \E i \in 1..2, j \in 1..2 :
         /\ alerts[i].resolved /\ alerts[i].acknowledged
         /\ alerts[i].resolvedAt < alerts[i].acknowledgedAt
         /\ ~alerts[j].resolved /\ ~alerts[j].acknowledged

\* C17: resolveAlert called without a resolution marks no alert resolved.
C17_ResolutionRequired ==
  [][\A id \in TripIds : \A a \in AlertIds :
       ResolveAlert(id, a, "") =>
         \A i \in 1..Len(activeTrackedAmbulances[id].deviationAlerts) :
           activeTrackedAmbulances'[id].deviationAlerts[i].resolved
             = activeTrackedAmbulances[id].deviationAlerts[i].resolved]_vars

\* C18: stopTracking on an active trip returns the terminal session and its
\* statistics and removes the trip from active storage; from then on, until
\* the id is started again, the trip is absent from getAllActiveTracked and
\* getTrackingStatus, updateLocation, acknowledgeAlert, resolveAlert and
\* stopTracking on that id report not-found.
C18_StoppedIsGone ==
  [][/\ \A id \in TripIds : \A final \in {NoLocation, Location(1000, 90)} :
          (activeTrackedAmbulances[id].status # "none" /\ StopTracking(id, final)) =>
            /\ ~ret'.null
            /\ ret'.session.requestId = id
            /\ ret'.session.status = "completed"
            /\ ret'.session.deviationAlerts = activeTrackedAmbulances[id].deviationAlerts
            /\ ret'.finalStats.deviationCount = Len(ret'.session.deviationAlerts)
            /\ id \in stopped'
     /\ \A id \in stopped' :
          /\ getTrackingStatus(activeTrackedAmbulances', id).null
          /\ \A e \in getAllActiveTracked(activeTrackedAmbulances') : e.requestId # id
     /\ \A id \in stopped :
          /\ \A location \in Samples : UpdateLocation(id, location) => ret'.null
          /\ \A final \in {NoLocation, Location(1000, 90)} :
               StopTracking(id, final) => ret'.null
          /\ \A a \in AlertIds :
               /\ AcknowledgeAlert(id, a) => ret'.error = "Session not found"
               /\ \A res \in Resolutions :
                    ResolveAlert(id, a, res) => ret'.error = "Session not found"]_vars

\* C18 witness: a trip was stopped and not started again, and
\* acknowledgeAlert on it has just reported that the session was not found.
C18_Witness ==
  /\ ret.op = "acknowledgeAlert" /\ ret.error = "Session not found"
  /\ ret.requestId \in stopped
  /\ getTrackingStatus(activeTrackedAmbulances, ret.requestId).null

\* C19: in the trip-completion flow a session that has been removed from
\* active storage has had its trip-completed audit append issued.
C19_SnapshotBeforeRemoval ==
  \A id \in stopped : completion[id] = "logged"

\* An alert of `before` is in `after`, whatever acknowledge and resolve did
\* to it.
Retained(before, after) ==
  \A i \in 1..Len(before) :
    \E j \in 1..Len(after) :
      /\ after[j].id = before[i].id
      /\ after[j].timestamp = before[i].timestamp
      /\ after[j].details = before[i].details
      /\ after[j].currentLocation = before[i].currentLocation

\* C20: no call deletes an alert: after startTracking, updateLocation,
\* acknowledgeAlert or resolveAlert every alert of an active trip is still
\* in its alert list, and the terminal session returned by stopTracking
\* holds all of them.
C20_AlertsRetained ==
  [][\A id \in TripIds :
       activeTrackedAmbulances[id].status # "none" =>
         IF activeTrackedAmbulances'[id].status # "none"
           THEN Retained(activeTrackedAmbulances[id].deviationAlerts,
                         activeTrackedAmbulances'[id].deviationAlerts)
           ELSE /\ ret'.op = "stopTracking"
                /\ Retained(activeTrackedAmbulances[id].deviationAlerts,
                            ret'.session.deviationAlerts)]_vars

\* C21: a trip is only ever tracking or completed. Every session in active
\* storage is tracking, getTrackingStatus and getAllActiveTracked show no
\* other status, and the only completed session is the one stopTracking
\* returns.
C21_TrackingOrCompleted ==
  /\ \A id \in TripIds :
       /\ activeTrackedAmbulances[id].status \in {"none", "tracking"}
       /\ ~getTrackingStatus(activeTrackedAmbulances, id).null =>
            getTrackingStatus(activeTrackedAmbulances, id).status = "tracking"
  /\ \A e \in getAllActiveTracked(activeTrackedAmbulances) : e.status = "tracking"
  /\ ret.session.status \in {"none", "tracking", "completed"}
  /\ ret.session.status = "completed" <=> (ret.op = "stopTracking" /\ ~ret.null)
  /\ ret.session.status = "tracking" <=> ret.op = "startTracking"

\* C21 witness: stopTracking has just returned the completed session of a
\* trip with a sample while another trip is tracked, and the stopped trip is
\* not listed.
C21_Witness ==
  /\ ret.op = "stopTracking" /\ ret.session.status = "completed"
  /\ Len(ret.session.locationHistory) >= 1
  /\ activeTrackedAmbulances[ret.requestId].status = "none"
  /\ \E e \in getAllActiveTracked(activeTrackedAmbulances) : e.requestId # ret.requestId

\* C22: the deviationCount returned by stopTracking is the number of
\* updateLocation calls flagged as deviating since the trip was started:
\* startTracking begins with no alert, each updateLocation adds one exactly
\* when it is flagged, and stopTracking reports the number reached, whatever
\* the number of samples.
C22_DeviationCount ==
  [][\A id \in TripIds :
       LET counted == Len(activeTrackedAmbulances[id].deviationAlerts)
           counted2 == Len(activeTrackedAmbulances'[id].deviationAlerts)
       IN /\ (\E route \in Routes : StartTracking(id, route)) => counted2 = 0
          /\ activeTrackedAmbulances[id].status # "none" =>
               /\ \A location \in Samples :
                    UpdateLocation(id, location) =>
                      counted2 = counted + (IF ret'.deviationAlert THEN 1 ELSE 0)
               /\ \A final \in {NoLocation, Location(1000, 90)} :
                    StopTracking(id, final) =>
                      ret'.finalStats.deviationCount = counted]_vars

\* C22 witness: stopTracking has just returned a deviation count of 1 for a
\* trip with a single sample, the off-route one.
C22_Witness ==
  /\ ret.op = "stopTracking" /\ ~ret.null
  /\ Len(ret.session.locationHistory) = 1
  /\ Len(ret.session.deviationAlerts) = 1
  /\ ret.session.deviationAlerts[1].details.reasons[1] = "Off route"
  /\ ret.finalStats.deviationCount = 1

\* C23 as stated: between two getTrackingStatus calls on a trip with no
\* updateLocation on it in between the data returned is the same, that is,
\* while the trip is tracked no step other than an updateLocation on it
\* changes what getTrackingStatus returns for it.
C23_SameWithoutUpdate ==
  [][\A id \in TripIds :
       (/\ activeTrackedAmbulances[id].status = "tracking"
        /\ activeTrackedAmbulances'[id].status = "tracking"
        /\ ret'.op \notin {"startTracking", "updateLocation"}) =>
         getTrackingStatus(activeTrackedAmbulances', id)
           = getTrackingStatus(activeTrackedAmbulances, id)]_vars

\* C23 amended: getTrackingStatus and getAllActiveTracked change no
\* session, a query repeated with no other call in between returns the same
\* data however much time has passed, and what getTrackingStatus returns for
\* a trip changes only with a startTracking, updateLocation,
\* acknowledgeAlert, resolveAlert or stopTracking call on that trip.
C23_QueriesReadOnly ==
  [][/\ \A id \in TripIds :
          /\ GetTrackingStatus(id) =>
               /\ activeTrackedAmbulances' = activeTrackedAmbulances
               /\ (ret.op = "getTrackingStatus" /\ ret.requestId = id) => ret' = ret
          /\ ~(/\ ret'.requestId = id
                /\ ret'.op \in {"startTracking", "updateLocation", "acknowledgeAlert",
                                 "resolveAlert", "stopTracking"}) =>
               getTrackingStatus(activeTrackedAmbulances', id)
                 = getTrackingStatus(activeTrackedAmbulances, id)
     /\ GetAllActiveTracked =>
          /\ activeTrackedAmbulances' = activeTrackedAmbulances
          /\ ret.op = "getAllActiveTracked" => ret' = ret]_vars

\* C23 witness: getTrackingStatus has just returned the status of a tracked
\* trip with an unresolved alert, some time after the trip's last update.
C23_Witness ==
  /\ ret.op = "getTrackingStatus" /\ ~ret.null
  /\ Len(ret.tracking.activeAlerts) >= 1
  /\ ret.tracking.deviationCount >= 1
  /\ clock > ret.tracking.lastUpdate

\* C24: an updateLocation and a completion of the same trip never interleave
\* partially. Each updateLocation either finds the session, appends its
\* sample and leaves the session tracked, or finds none, returns null and
\* changes nothing; a completion returns every sample appended before it;
\* and a removed session never holds a sample or an alert.
C24_UpdateOrNotFound ==
  [][\A id \in TripIds :
       LET session == activeTrackedAmbulances[id]
           session2 == activeTrackedAmbulances'[id]
       IN /\ \A location \in Samples :
               UpdateLocation(id, location) =>
                 IF session.status = "none"
                   THEN ret'.null /\ activeTrackedAmbulances' = activeTrackedAmbulances
                   ELSE /\ ~ret'.null
                        /\ session2.status = "tracking"
                        /\ session2.locationHistory =
                             Append(session.locationHistory, Sample(location, clock))
          /\ \A final \in {NoLocation, Location(1000, 90)} :
               (session.status # "none" /\ Complete(id, final)) =>
                 /\ SubSeq(ret'.session.locationHistory, 1, Len(session.locationHistory))
                      = session.locationHistory
                 /\ ret'.session.deviationAlerts = session.deviationAlerts
          /\ id \in stopped' => session2 = NoSession]_vars

\* C24 witness: an updateLocation that arrived while the completion of its
\* trip was waiting for the request record has just returned null, after
\* the completion had returned a session with a sample.
C24_Witness ==
  /\ ret.op = "updateLocation" /\ ret.null
  /\ completion[ret.requestId] = "updating"
  /\ ret.requestId \in stopped
  /\ activeTrackedAmbulances[ret.requestId] = NoSession

\* ---- TravelEstimator

\* C25: no travel-time cache entry is served past its TTL: whenever
\* getTravelTime hands back a cached estimate, that estimate was computed
\* less than five minutes before the call, whatever getTravelTime and
\* clearCache calls and advances of the clock came before.
C25_NoStaleEstimate ==
  \A c \in Callers :
    travel[c].cached =>
      /\ travel[c].settled = "fulfilled"
      /\ travel[c].result.updatedAt >= 0
      /\ travel[c].calledAt - travel[c].result.updatedAt >= 0
      /\ travel[c].calledAt - travel[c].result.updatedAt < cacheExpiry

\* C25 witness: a caller was handed a cached estimate one millisecond before
\* its expiry, computed by a call later than the first one of the run.
C25_Witness ==
  \E c \in Callers :
    /\ travel[c].cached
    /\ travel[c].result.updatedAt > 0
    /\ travel[c].calledAt - travel[c].result.updatedAt = cacheExpiry - 1

\* C26: when the traffic provider fails during getTravelTime the call still
\* returns: its result is the distance-only fallback with traffic condition
\* "unknown", and the cache is left as it was, so that no entry ever holds a
\* fallback estimate.
C26_FallbackNotCached ==
  [][\A c \in Callers :
       (/\ travel[c].pc = "awaiting"
        /\ travel[c].trafficCondition = "rejected"
        /\ GetTravelTimeResume(c)) =>
         LET metres == Abs(travel[c].origin - travel[c].destination)
             minutes == Round(metres * 60, 1000 * defaultSpeedKmh)
             result == travel'[c].result
         IN /\ travel'[c].pc = "idle"
            /\ travel'[c].settled = "fulfilled"
            /\ result.trafficCondition = "unknown"
            /\ result.distance = Round(metres, 100)
            /\ result.duration = minutes
            /\ result.durationInTraffic = Round(minutes * 12, 10)
            /\ result.speedAverage = defaultSpeedKmh
            /\ trafficCache' = trafficCache
            /\ \A key \in DOMAIN trafficCache' :
                 trafficCache'[key].data.trafficCondition # "unknown"]_vars

\* C26 witness: a call has returned the fallback estimate while another
\* caller holds an estimate with traffic data for the same pair of places,
\* and the cache holds that estimate and not the fallback.
C26_Witness ==
  \E c, d \in Callers :
    /\ travel[c].settled = "fulfilled"
    /\ travel[c].result.trafficCondition = "unknown"
    /\ travel[d].settled = "fulfilled"
    /\ travel[d].result.trafficCondition = "heavy"
    /\ CacheKey(travel[c].origin, travel[c].destination) \in DOMAIN trafficCache
    /\ trafficCache[CacheKey(travel[c].origin, travel[c].destination)].data
         = travel[d].result
    /\ travel[c].result.updatedAt > travel[d].result.updatedAt

\* ---- OptimizationEngine

\* The candidates of the last pass with candidate `i` given another name and
\* address.
Relabelled(candidates, i, label) ==
  [candidates EXCEPT ![i] = [@ EXCEPT !.name = label[1],
                                      !.location = [@ EXCEPT !.address = label[2]]]]

\* Names and addresses a candidate may be given instead of its own.
Labels ==
  {<<h.name, h.location.address>> : h \in HospitalPool} \cup {<<"Mercy", "9 Elm St">>}

\* The response the last pass would have given had candidate `i` carried
\* `label`.
ResponseIfRelabelled(i, label) ==
  optimizeHospitalSelection(optimized.cache, Relabelled(optimized.hospitals, i, label),
                            optimized.patientLocation, optimized.patientCondition,
                            optimized.forecasts, optimized.trafficCondition,
                            optimized.startTime).optimized.response

\* Names and addresses of the candidates of the last pass.
CandidateLabels ==
  UNION {{optimized.hospitals[i].name, optimized.hospitals[i].location.address} :
           i \in DOMAIN optimized.hospitals}

\* Sub-scores and composite scores of the candidates of the last pass.
CandidateScores ==
  UNION {{optimized.scored[i].scores.compositeScore,
          optimized.scored[i].scores.availabilityScore,
          optimized.scored[i].scores.specialistScore,
          optimized.scored[i].scores.travelScore,
          optimized.scored[i].scores.equipmentScore,
          optimized.scored[i].scores.loadScore} : i \in DOMAIN optimized.scored}

\* The texts and the numbers held by the fields of a response.
TextsOf(response) ==
  {response.destination.hospitalId, response.navigation.trafficCondition,
   response.patientInfo.condition, response.patientInfo.severity,
   response.patientInfo.requiredSpecialty, response.metadata.systemVersion,
   response.metadata.algorithm}
NumbersOf(response) ==
  {response.navigation.distance, response.navigation.estimatedTime,
   response.patientInfo.eta, response.metadata.processedAt,
   response.metadata.processingTimeMs}
    \cup {response.navigation.routeCoordinates[i] :
            i \in DOMAIN response.navigation.routeCoordinates}

BestScore ==
  CHOOSE best \in {optimized.scored[i].scores.compositeScore :
                     i \in DOMAIN optimized.scored} :
    \A i \in DOMAIN optimized.scored : optimized.scored[i].scores.compositeScore <= best

\* The place in the input list of the first candidate with the highest score.
FirstBest ==
  CHOOSE i \in DOMAIN optimized.scored :
    /\ optimized.scored[i].scores.compositeScore = BestScore
    /\ \A j \in 1..(i - 1) : optimized.scored[j].scores.compositeScore < BestScore

\* C28: the selected hospital is a candidate with the highest composite
\* score and, where several candidates share that score, the one that comes
\* first in the input list.
C28_FirstOfTheBest ==
  optimized.settled = "fulfilled" =>
    /\ optimized.scoredHospitals[1] = optimized.scored[FirstBest]
    /\ optimized.response.destination.hospitalId = optimized.hospitals[FirstBest]._id
    /\ optimized.scoredHospitals[1].scores.compositeScore = BestScore

\* C28 witness: the two candidates of a pass share the highest score and the
\* first of them was selected.
C28_Witness ==
  /\ optimized.settled = "fulfilled"
  /\ Len(optimized.scored) = 2
  /\ optimized.scored[1].scores.compositeScore = optimized.scored[2].scores.compositeScore
  /\ optimized.hospitals[1]._id # optimized.hospitals[2]._id
  /\ optimized.response.destination.hospitalId = optimized.hospitals[1]._id

\* The composite score candidate `id` got in the last pass.
CompositeOf(id) ==
  LET i == CHOOSE j \in DOMAIN optimized.scored : optimized.scored[j].hospitalId = id
  IN optimized.scored[i].scores.compositeScore

\* C29: when the candidates are H1 (no ICU place, no cardiologist, critical
\* load) and H2 (five ICU places, a cardiologist, low load) and the patient is
\* critical and needs a cardiologist, H2 scores higher than H1 and is
\* selected, whatever forecasts and travel estimates the two get.
C29_ReadyHospitalWins ==
  (/\ optimized.settled = "fulfilled"
   /\ optimized.patientCondition = Critical
   /\ {optimized.hospitals[i] : i \in DOMAIN optimized.hospitals} = {H1, H2}) =>
    /\ CompositeOf("h2") > CompositeOf("h1")
    /\ optimized.response.destination.hospitalId = "h2"

\* C30: the composite score does not go down when one sub-score goes up by
\* one and the other four stay, for every value from 0 to 100 of the one that
\* goes up; no weight is negative and the five weights add up to 1.
C30_MonotoneComposite ==
  [][RaiseScore =>
       /\ scores'.compositeScore >= scores.compositeScore
       /\ \A w \in DOMAIN weights : weights[w] >= 0
       /\ weights.predictedAvailability + weights.specialistPresence
            + weights.travelTime + weights.equipmentMatch + weights.currentLoad = 100]_vars

\* C30 witness: the load score has been raised from 0 to 100 with the other
\* four at 50, and the composite score has gone from 45 to 55.
C30_Witness ==
  /\ scores.varied = "loadScore"
  /\ scores.loadScore = MaxScore
  /\ scores.availabilityScore = 50 /\ scores.specialistScore = 50
  /\ scores.travelScore = 50 /\ scores.equipmentScore = 50
  /\ scores.compositeScore = 55

\* The forecast point candidate `i` of the last pass is to be scored with: its
\* own, or its present beds and ICU places at confidence 0.5 when its
\* forecast failed.
PointOf(i) ==
  LET h == optimized.hospitals[i]
  IN IF optimized.forecasts[i] = NoForecast
       THEN ForecastPoint(h.capacity.availableBeds, h.capacity.availableICU, 50)
       ELSE optimized.forecasts[i]

\* C31: a pass in which the forecast of one hospital fails still returns a
\* destination among its candidates; the failing hospital is scored with the
\* default point built from its present beds and ICU places at confidence
\* 0.5, and every other hospital with its own forecast.
C31_ForecastFailureTolerated ==
  (/\ optimized.hospitals # << >>
   /\ optimized.settled # "none") =>
    /\ optimized.settled = "fulfilled"
    /\ \E i \in DOMAIN optimized.hospitals :
         optimized.response.destination.hospitalId = optimized.hospitals[i]._id
    /\ \A i \in DOMAIN optimized.hospitals :
         /\ optimized.scored[i].prediction.predictions = <<PointOf(i)>>
         /\ optimized.scored[i].scores.predictionConfidence = PointOf(i).confidence
         /\ optimized.scored[i].scores.availabilityScore
              = IF optimized.patientCondition.severity \in {"critical", "severe"}
                  THEN Round(100 * PointOf(i).predictedICU,
                             Maximum(1, PointOf(i).predictedICU + 2))
                  ELSE Minimum(100, Round(100 * PointOf(i).predictedBeds,
                                          Maximum(10, PointOf(i).predictedBeds + 5)))

\* C31 witness: of the two candidates of a pass the forecast of the first
\* failed and that of the second did not, and the pass returned the first.
C31_Witness ==
  /\ optimized.settled = "fulfilled"
  /\ Len(optimized.hospitals) = 2
  /\ optimized.forecasts[1] = NoForecast
  /\ optimized.forecasts[2] # NoForecast
  /\ optimized.scored[1].scores.predictionConfidence = 50
  /\ optimized.response.destination.hospitalId = optimized.hospitals[1]._id

\* C32: every decision made through the routing operations has a log* call
\* of its kind: a selection answered by POST /calculate, every alert raised
\* for a tracked trip (a deviation-detected call naming the trip), every
\* acknowledged alert (a call naming the trip and the alert), and every trip
\* PUT /complete has answered for.
C32_DecisionsAudited ==
  /\ reply.status = 200 =>
       \E e \in handed : e.call.event = "routing.calculated"
  /\ \A id \in TripIds :
       /\ \A i \in DOMAIN activeTrackedAmbulances[id].deviationAlerts :
            LET alert == activeTrackedAmbulances[id].deviationAlerts[i]
            IN /\ \E e \in handed : /\ e.call.event = "ambulance.route_deviation"
                                    /\ e.requestId = id
               /\ alert.acknowledged =>
                    \E e \in handed : /\ e.call # logDeviation(TRUE)
                                      /\ e.requestId = id
                                      /\ e.alertId = alert.id
       /\ completion[id] = "logged" =>
            \E e \in handed : /\ e.call.event = "request.completed"
                              /\ e.requestId = id

\* C33: no candidate is scored while a forecast or a travel call of the pass
\* is still to settle, and once the pass has returned, candidate i has been
\* scored with the forecast its own getHospitalPrediction got and with the
\* travel estimate to its own location, in whatever order the calls settled.
C33_JoinedByIndex ==
  /\ pass.phase \in {"predicting", "travelling"} =>
       /\ pass.scored = << >>
       /\ pass.response = NoResponse
  /\ pass.phase = "fulfilled" =>
       /\ pass.pendingPredictions = {} /\ pass.pendingTravel = {}
       /\ \A i \in DOMAIN pass.hospitals :
            /\ pass.scored[i].hospitalId = pass.hospitals[i]._id
            /\ pass.scored[i].prediction
                 = getHospitalPrediction(pass.hospitals[i], pass.forecasts[i])
            /\ pass.scored[i].traffic.route.coordinates
                 = <<pass.patientLocation, pass.hospitals[i].location.pos>>
            /\ pass.scored[i].scores
                 = calculateCompositeScore(pass.hospitals[i], pass.scored[i].prediction,
                                           pass.scored[i].traffic, pass.patientCondition)

\* C33 witness: a pass over two hospitals at different distances has
\* returned; the calls for the second hospital settled before those for the
\* first, and the two got different forecasts.
C33_Witness ==
  /\ pass.phase = "fulfilled"
  /\ Len(pass.hospitals) = 2
  /\ pass.predictionOrder = <<2, 1>>
  /\ pass.travelOrder = <<2, 1>>
  /\ pass.forecasts[1] # pass.forecasts[2]
  /\ pass.hospitals[1].location.pos # pass.hospitals[2].location.pos
  /\ pass.scored[1].prediction.predictions = <<pass.forecasts[1]>>

\* C34: no two alerts held by the tracked trips share an id, whether they
\* belong to one trip or to two.
C34_AlertIdsUnique ==
  \A a, b \in TripIds :
    \A i \in DOMAIN activeTrackedAmbulances[a].deviationAlerts,
       j \in DOMAIN activeTrackedAmbulances[b].deviationAlerts :
      (a # b \/ i # j) =>
        activeTrackedAmbulances[a].deviationAlerts[i].id
          # activeTrackedAmbulances[b].deviationAlerts[j].id

\* C35: the heading check is symmetric about the planned heading. After an
\* updateLocation on a trip with a planned heading, the sample is flagged for
\* its heading exactly if the sample mirrored about the planned heading would
\* be, and a sample within 45 degrees of the planned heading, on either side,
\* is not flagged for its heading.
C35_HeadingSymmetric ==
  (ret.op = "updateLocation" /\ ~ret.null) =>
    LET session == activeTrackedAmbulances[ret.requestId]
        planned == session.recommendedRoute.heading
        last == session.locationHistory[Len(session.locationHistory)]
        mirrored == Location(last.pos, (2 * planned - last.heading + 360) % 360)
        flagged == HasReason(ret.deviationDetails.reasons, "Heading deviation")
    IN (session.status = "tracking" /\ planned # 0) =>
         /\ flagged <=> HasReason(checkRouteDeviation(session, mirrored, clock).reasons,
                                  "Heading deviation")
         /\ AngleBetween(last.heading, planned) <= AngleDegrees => ~flagged

\* C36: a trip whose planned route has no coordinates holds no alert with
\* the reason 'Off route', and an updateLocation on it returns no such reason.
C36_EmptyRouteNeverOffRoute ==
  \A id \in TripIds :
    LET session == activeTrackedAmbulances[id]
    IN (session.status = "tracking" /\ session.recommendedRoute.coordinates = << >>) =>
         /\ \A i \in DOMAIN session.deviationAlerts :
              ~HasReason(session.deviationAlerts[i].details.reasons, "Off route")
         /\ (ret.op = "updateLocation" /\ ret.requestId = id /\ ~ret.null) =>
              ~HasReason(ret.deviationDetails.reasons, "Off route")

\* C37: the travel sub-score does not go up when the traffic-adjusted
\* duration goes up by a minute, for every whole number of minutes.
C37_TravelScoreMonotone ==
  [][LengthenTrip => scores'.travelScore <= scores.travelScore]_vars

\* C38: an estimate getTravelTime returns with traffic data is the one
\* computed for the vehicle class of the call, whatever class earlier calls
\* for the same origin and destination were made with.
C38_OwnVehicleClass ==
  \A c \in Callers :
    (travel[c].settled = "fulfilled" /\ travel[c].result.trafficCondition # "unknown") =>
      LET own == calculateTravelTimeWithTraffic(
                   calculateDistance(travel[c].origin, travel[c].destination),
                   travel[c].result.trafficCondition, travel[c].vehicleType)
      IN /\ travel[c].result.durationInTraffic = own.durationInTraffic
         /\ travel[c].result.speedAverage = own.speedAverage

\* C39: in the result of getInternalRecommendations exactly one
\* recommendation is flagged selected, it is the first of the ranked list,
\* which is optimalHospital, and it is the hospital the first pass returned
\* as destination.
C39_SelectedIsOptimal ==
  internal.settled = "fulfilled" =>
    /\ Cardinality({i \in DOMAIN internal.recommendations :
                      internal.recommendations[i].selected}) = 1
    /\ internal.optimalHospital = internal.recommendations[1]
    /\ internal.recommendations[1].selected
    /\ internal.optimalHospital.hospitalId
         = internal.allHospitals.destination.hospitalId

====
